---- MODULE Spec2Model ----
(***************************************************************************)
(* A model of the JME interpreter core of numbas-runtime.js: the Scope     *)
(* chain (variables, functions, deleted names), Scope.evaluate with its    *)
(* lazy operations, function overload resolution, and the dependency       *)
(* ordered variable resolver jme.variables.makeVariables/computeVariable.  *)
(***************************************************************************)
EXTENDS Integers, Sequences, FiniteSets, TLC

VARIABLES
    scopes,     \* heap of Scope objects: id -> [variables, functions, resolved, rulesets, deleted, parent, ...]
    last,       \* the last API call made and what it returned
    funcObjAcc, \* the accumulator of funcObj ids
    pool,       \* the function objects constructed so far
    evaluations, \* how many top-level evaluations have been made
    run         \* the call of jme.variables.makeVariables in progress, if any

vars == <<scopes, last, funcObjAcc, pool, evaluations, run>>

(***************************************************************************)
(* Tokens (jme.types).  `undefined` is JavaScript's undefined.             *)
(***************************************************************************)
undefined == [type |-> "undefined"]

TNum(n) == [type |-> "number", value |-> n]

TBool(b) == [type |-> "boolean", value |-> b]

\* String.prototype.toLowerCase on the names the model uses
toLowerCase(name) ==
    CASE name = "X" -> "x"
      [] name = "A" -> "a"
      [] name = "unitPower" -> "unitpower"
      [] name = "zeroPower" -> "zeropower"
      [] name = "collectNumbers" -> "collectnumbers"
      [] name = "zeroBase" -> "zerobase"
      [] name = "constantsFirst" -> "constantsfirst"
      [] OTHER -> name

(***************************************************************************)
(* Scope objects.  A JavaScript dictionary is a function whose DOMAIN is   *)
(* the set of its keys; d[k]===undefined is k \notin DOMAIN d.             *)
(***************************************************************************)
EmptyDict == [k \in {} |-> undefined]

DictGet(d, k) == IF k \in DOMAIN d THEN d[k] ELSE undefined

DictSet(d, k, v) == [x \in (DOMAIN d) \cup {k} |-> IF x = k THEN v ELSE d[x]]

\* new Scope(parent): empty collections, nothing deleted
NewScope(parent) ==
    [variables |-> EmptyDict,
     functions |-> EmptyDict,
     resolved  |-> EmptyDict,
     rulesets  |-> EmptyDict,
     deleted   |-> [variables |-> {}, functions |-> {}, rulesets |-> {}],
     parent    |-> parent,
     stateful  |-> FALSE,
     state     |-> <<>>,
     new_state |-> FALSE]

\* Scope.prototype.resolve: walk from the scope to the root; a scope that has
\* the name marked deleted ends the walk before its own collection is read
RECURSIVE resolveMutDefinedFirst(_, _, _, _)
resolveMutDefinedFirst(h, s, collection, name) ==
    IF s = 0 THEN undefined
    ELSE IF name \in DOMAIN h[s][collection] THEN h[s][collection][name]
    ELSE IF name \in h[s].deleted[collection] THEN undefined
    ELSE resolveMutDefinedFirst(h, h[s].parent, collection, name)

RECURSIVE resolve(_, _, _, _)
resolve(h, s, collection, name) ==
    IF s = 0 THEN undefined
    ELSE IF name \in h[s].deleted[collection] THEN undefined
    ELSE IF name \in DOMAIN h[s][collection] THEN h[s][collection][name]
    ELSE resolve(h, h[s].parent, collection, name)

getVariable(h, s, name) == resolve(h, s, "variables", name)

\* Scope.prototype.setVariable: the name is lower-cased on write
setVariable(h, s, name, value) ==
    [h EXCEPT ![s].variables = DictSet(@, toLowerCase(name), value)]

\* Scope.prototype.deleteVariable: the name is marked as given
deleteVariable(h, s, name) ==
    [h EXCEPT ![s].deleted.variables = @ \cup {name}]

(***************************************************************************)
(* Syntax trees: a leaf is [tok], an inner node [tok, args].               *)
(***************************************************************************)
TName(name) == [type |-> "name", name |-> name]

NumT(n) == [tok |-> TNum(n)]

BoolT(b) == [tok |-> TBool(b)]

NameT(name) == [tok |-> TName(name)]

OpT(op, args) == [tok |-> [type |-> "op", name |-> op], args |-> args]

FnT(name, args) == [tok |-> [type |-> "function", name |-> name], args |-> args]

\* a list literal as the parser leaves it: a list token without a value
ListT(args) == [tok |-> [type |-> "list", vars |-> Len(args)], args |-> args]

TList(value) == [type |-> "list", value |-> value]

IsLeaf(tree) == "args" \notin DOMAIN tree

\* t.tok.name, which is JavaScript's undefined for a token that has no name
NameOf(tok) == IF "name" \in DOMAIN tok THEN tok.name ELSE "undefined"

\* a thrown Numbas.Error, by its untranslated message
Error(message) == [type |-> "error", message |-> message]

IsError(tok) == tok.type = "error"

\* JavaScript truthiness of a token's .value
Truthy(tok) ==
    CASE tok.type = "boolean" -> tok.value
      [] tok.type = "number" -> tok.value # 0
      [] tok.type = "list" -> TRUE
      [] OTHER -> FALSE

(***************************************************************************)
(* Function objects (jme.funcObj) and overload resolution.                 *)
(***************************************************************************)
\* new jme.funcObj: `kind` stands for the JavaScript closure it evaluates by
funcObj(id, name, intype, kind, data) ==
    [id |-> id, name |-> toLowerCase(name), intype |-> intype, kind |-> kind, data |-> data]

VariadicTypes == {"*number", "*boolean", "*?"}

VariadicBase(t) ==
    CASE t = "*number" -> "number" [] t = "*boolean" -> "boolean" [] OTHER -> "?"

\* funcObj.typecheck, the default positional match of argument types
RECURSIVE typecheckFrom(_, _, _)
typecheckFrom(intype, i, variables) ==
    IF i > Len(intype) THEN variables = <<>>
    ELSE IF intype[i] \in VariadicTypes
    THEN IF \A j \in 1..Len(variables) :
               \/ variables[j].type = VariadicBase(intype[i])
               \/ VariadicBase(intype[i]) = "?"
               \/ variables[j].type = "?"
         THEN typecheckFrom(intype, i + 1, <<>>)
         ELSE FALSE
    ELSE IF variables = <<>> THEN FALSE
    ELSE IF variables[1].type = intype[i] \/ intype[i] = "?" \/ variables[1].type = "?"
    THEN typecheckFrom(intype, i + 1, Tail(variables))
    ELSE FALSE

typecheck(fn, variables) == typecheckFrom(fn.intype, 1, variables)

\* Array.prototype.sort with fnSort = util.sortBy('id'): insertion into place,
\* equal ids keeping their order
RECURSIVE sortById(_)
sortById(list) ==
    IF list = <<>> THEN <<>>
    ELSE LET rest == sortById(Tail(list))
             before == SelectSeq(rest, LAMBDA f : f.id < Head(list).id)
             after == SelectSeq(rest, LAMBDA f : f.id >= Head(list).id)
         IN before \o <<Head(list)>> \o after

\* the loop of merge that removes the later of two neighbours with equal ids
RECURSIVE dropDuplicateIds(_)
dropDuplicateIds(list) ==
    IF Len(list) < 2 THEN list
    ELSE IF list[1].id = list[2].id
    THEN dropDuplicateIds(<<list[1]>> \o SubSeq(list, 3, Len(list)))
    ELSE <<list[1]>> \o dropDuplicateIds(Tail(list))

\* Array.prototype.merge(arr, fnSort): an empty receiver returns arr as it is
merge(this, arr) ==
    IF this = <<>> THEN arr
    ELSE dropDuplicateIds(sortById(this \o arr))

\* the while loop of getFunction over the scope and its ancestors
RECURSIVE collectFunctions(_, _, _, _)
collectFunctions(h, s, name, o) ==
    IF s = 0 THEN o
    ELSE collectFunctions(h, h[s].parent, name,
            IF name \in DOMAIN h[s].functions THEN merge(o, h[s].functions[name]) ELSE o)

\* Scope.prototype.getFunction: [fns, h], the list and the heap with the
\* scope's _resolved_functions entry filled in
getFunction(h, s, name) ==
    IF name \in DOMAIN h[s].resolved
    THEN [fns |-> h[s].resolved[name], h |-> h]
    ELSE LET o == collectFunctions(h, s, name, <<>>)
         IN [fns |-> o, h |-> [h EXCEPT ![s].resolved = DictSet(@, name, o)]]

\* Scope.prototype.addFunction: the cache entry is dropped only when the
\* scope already had a definition of the name
addFunction(h, s, fn) ==
    IF fn.name \notin DOMAIN h[s].functions
    THEN [h EXCEPT ![s].functions = DictSet(@, fn.name, <<fn>>)]
    ELSE [h EXCEPT ![s].functions = DictSet(@, fn.name, Append(@[fn.name], fn)),
                   ![s].resolved = [k \in (DOMAIN @) \ {fn.name} |-> @[k]]]

(***************************************************************************)
(* Evaluation.  An evaluation state st is [h, calls, trace]: the heap of   *)
(* scopes, the ids of the function objects invoked so far and the trees    *)
(* handed to Scope.evaluate so far.  An evaluation returns [tok, st]; a    *)
(* thrown error is a tok of type "error".                                  *)
(***************************************************************************)
maxRunsDefault == 100

\* jme.lazyOps without 'if': its arguments would be evaluated before the call
lazyOpsMutEagerIf ==
    {"switch", "repeat", "map", "let", "isa", "satisfy", "filter", "isset", "dict", "safe", "try"}

lazyOps ==
    {"if", "switch", "repeat", "map", "let", "isa", "satisfy", "filter", "isset", "dict", "safe", "try"}

\* the operations with an entry in jme.substituteTreeOps, by the argument
\* positions that entry substitutes into
substituteTreeOps == {"isset", "map", "filter", "let", "apply"}

SubstitutedArgs(name, n) ==
    CASE name \in {"map", "filter"} -> {3}
      [] name = "let" -> {i \in 2..(n - 1) : i % 2 = 0}
      [] OTHER -> {}

\* jme.substituteTree(tree, scope, true)
RECURSIVE substituteTree(_, _, _)
substituteTree(tree, h, s) ==
    IF IsLeaf(tree)
    THEN IF tree.tok.type = "name"
         THEN LET name == toLowerCase(tree.tok.name)
                  v == getVariable(h, s, name)
              IN IF v = undefined THEN [tok |-> TName(name)] ELSE [tok |-> v]
         ELSE tree
    ELSE IF tree.tok.type \in {"function", "op"} /\ tree.tok.name \in substituteTreeOps
    THEN [tree EXCEPT !.args =
            [i \in 1..Len(tree.args) |->
                IF i \in SubstitutedArgs(tree.tok.name, Len(tree.args))
                THEN substituteTree(tree.args[i], h, s) ELSE tree.args[i]]]
    ELSE [tree EXCEPT !.args =
            [i \in 1..Len(tree.args) |-> substituteTree(tree.args[i], h, s)]]

\* binding in the scope that was given, where the code makes a new one
NewChildMutGivenScope(h, parent) == [h |-> h, scope |-> parent]

\* new Scope(parent): the heap with the new scope, and the new scope
NewChild(h, parent) == [h |-> Append(h, NewScope(parent)), scope |-> Len(h) + 1]

\* new Scope([parent, {variables: variables}]): each extra goes through setVariable
RECURSIVE setVariables(_, _, _, _)
setVariables(h, s, names, values) ==
    IF names = <<>> THEN h
    ELSE setVariables(setVariable(h, s, Head(names), Head(values)), s, Tail(names), Tail(values))

\* scope.variables[name] = value for each of the names, in order
RECURSIVE assignVariables(_, _, _, _)
assignVariables(h, s, names, values) ==
    IF names = <<>> THEN h
    ELSE assignVariables([h EXCEPT ![s].variables = DictSet(@, Head(names), Head(values))],
                         s, Tail(names), Tail(values))

\* the scope, walking up from s, that owns a marking state (state_fn's while loop)
RECURSIVE stateOwner(_, _)
stateOwner(h, s) == IF s = 0 \/ h[s].stateful THEN s ELSE stateOwner(h, h[s].parent)

Failed(r) == IsError(r.tok)

RECURSIVE evaluate(_, _, _)
RECURSIVE ScopeEvaluate(_, _, _)
RECURSIVE evaluateArgs(_, _, _, _)
RECURSIVE applyLazy(_, _, _, _)
RECURSIVE applyFunction(_, _, _, _)
RECURSIVE mapOverList(_, _, _, _, _, _)
RECURSIVE filterList(_, _, _, _, _, _)
RECURSIVE letBindings(_, _, _, _, _)
RECURSIVE satisfy(_, _, _, _, _, _, _)
RECURSIVE satisfyDefinitions(_, _, _, _, _)
RECURSIVE satisfyConditions(_, _, _, _)
RECURSIVE evaluateWith(_, _, _, _, _)
RECURSIVE ScopeEvaluateWith(_, _, _, _, _)

\* StatefulScope.prototype.evaluate up to its call of Scope.prototype.evaluate
StatefulEnter(s, st) == [st EXCEPT !.h[s].new_state = FALSE, !.h[s].state = <<>>]

\* StatefulScope.prototype.evaluate once Scope.prototype.evaluate has given r
StatefulLeave(s, st, r) ==
    LET is_top == st.h[s].new_state
        old_state == IF is_top THEN <<>> ELSE st.h[s].state
    IN IF Failed(r)
       THEN [r EXCEPT !.st.h[s].new_state = TRUE]
       ELSE [r EXCEPT !.st.h[s].state = old_state \o @,
                      !.st.h[s].new_state = IF is_top THEN TRUE ELSE @]

StatefulEvaluate(tree, s, st) ==
    StatefulLeave(s, st, ScopeEvaluate(tree, s, StatefulEnter(s, st)))

\* jme.evaluate(tree, scope) == scope.evaluate(tree)
evaluate(tree, s, st) ==
    IF st.h[s].stateful THEN StatefulEvaluate(tree, s, st) ELSE ScopeEvaluate(tree, s, st)

\* the loop evaluating the arguments of an eager operation, left to right
evaluateArgs(args, s, st, done) ==
    IF args = <<>> THEN [tok |-> TList(done), st |-> st]
    ELSE LET r == evaluate(Head(args), s, st)
         IN IF Failed(r) THEN r ELSE evaluateArgs(Tail(args), s, r.st, Append(done, r.tok))

\* the first definition whose typecheck accepts the arguments, 0 when none does
matchedFunction(fns, args) ==
    IF \E j \in 1..Len(fns) : typecheck(fns[j], args)
    THEN CHOOSE j \in 1..Len(fns) :
            typecheck(fns[j], args) /\ \A k \in 1..(j - 1) : ~typecheck(fns[k], args)
    ELSE 0

\* Scope.prototype.evaluate(expr) without a variables dictionary
ScopeEvaluate(tree0, s, st0) ==
    LET st == [st0 EXCEPT !.trace = Append(@, tree0)]
        tree == substituteTree(tree0, st.h, s)
        tok == tree.tok
    IN CASE tok.type \in {"number", "boolean"} -> [tok |-> tok, st |-> st]
         [] tok.type = "list" ->
              IF "value" \in DOMAIN tok THEN [tok |-> tok, st |-> st]
              ELSE evaluateArgs(tree.args, s, st, <<>>)
         [] tok.type = "name" ->
              LET v == getVariable(st.h, s, toLowerCase(tok.name))
              IN IF v # undefined THEN [tok |-> v, st |-> st]
                 ELSE [tok |-> [type |-> "name", name |-> tok.name, unboundName |-> TRUE],
                       st |-> st]
         [] tok.type \in {"op", "function"} ->
              LET op == toLowerCase(tok.name)
              IN IF op \in lazyOps
                 THEN LET g == getFunction(st.h, s, op)
                      IN applyLazy(g.fns[1], tree.args, s, [st EXCEPT !.h = g.h])
                 ELSE LET a == evaluateArgs(tree.args, s, st, <<>>)
                      IN IF Failed(a) THEN a
                         ELSE LET g == getFunction(a.st.h, s, op)
                                  st2 == [a.st EXCEPT !.h = g.h]
                                  j == matchedFunction(g.fns, a.tok.value)
                              IN IF g.fns = <<>>
                                 THEN [tok |-> Error(IF tok.type = "function"
                                                     THEN "jme.typecheck.function not defined"
                                                     ELSE "jme.typecheck.op not defined"),
                                       st |-> st2]
                                 ELSE IF j # 0
                                 THEN applyFunction(g.fns[j], a.tok.value, s, st2)
                                 ELSE IF \E i \in 1..Len(a.tok.value) :
                                            "unboundName" \in DOMAIN a.tok.value[i]
                                 THEN [tok |-> Error("jme.typecheck.no right type unbound name"),
                                       st |-> st2]
                                 ELSE [tok |-> Error("jme.typecheck.no right type definition"),
                                       st |-> st2]
         [] OTHER -> [tok |-> tok, st |-> st]

\* what Scope.evaluate returns for a missing tree
null == [type |-> "null"]

Arg(args, i) == IF i <= Len(args) THEN args[i] ELSE [tok |-> null]

Invoked(st, fn) == [st EXCEPT !.calls = Append(@, fn.id)]

\* the evaluate procedures of the lazy built-ins: they get the argument trees
applyLazy(fn, args, s, st0) ==
    LET st == Invoked(st0, fn)
    IN CASE fn.kind = "if" ->
              \* newBuiltin('if'): the test, then one of the two branches
              LET test == evaluate(Arg(args, 1), s, st)
              IN IF Failed(test) THEN test
                 ELSE IF Truthy(test.tok) THEN evaluate(Arg(args, 2), s, test.st)
                 ELSE evaluate(Arg(args, 3), s, test.st)
         [] fn.kind = "let" ->
              \* newBuiltin('let'): the values are evaluated in the given scope,
              \* the last argument in a new scope holding them
              LET b == letBindings(args, 1, s, st, <<>>)
              IN IF Failed(b) THEN b
                 ELSE LET n == NewChild(b.st.h, s)
                          nscope == n.scope
                          h2 == setVariables(n.h, nscope,
                                    [k \in 1..Len(b.tok.value) |-> b.tok.value[k].name],
                                    [k \in 1..Len(b.tok.value) |-> b.tok.value[k].value])
                      IN evaluate(args[Len(args)], nscope, [b.st EXCEPT !.h = h2])
         [] fn.kind = "map" ->
              LET value == evaluate(Arg(args, 3), s, st)
              IN IF Failed(value) THEN value
                 ELSE IF value.tok.type # "list"
                 THEN [tok |-> Error("jme.typecheck.map not on enumerable"), st |-> value.st]
                 ELSE LET n == NewChild(value.st.h, s)
                      IN mapOverList(args[1], NameOf(args[2].tok), value.tok.value,
                                     n.scope, [value.st EXCEPT !.h = n.h], <<>>)
         [] fn.kind = "filter" ->
              LET list == evaluate(Arg(args, 3), s, st)
              IN IF Failed(list) THEN list
                 ELSE IF list.tok.type # "list"
                 THEN [tok |-> Error("jme.typecheck.map not on enumerable"), st |-> list.st]
                 ELSE LET n == NewChild(list.st.h, s)
                      IN filterList(args[1], NameOf(args[2].tok), list.tok.value,
                                    n.scope, [list.st EXCEPT !.h = n.h], <<>>)
         [] fn.kind = "satisfy" ->
              IF Len(args) > 3
              THEN \* jme.evaluate(args[3]) is called without a scope
                   [tok |-> Error("TypeError"), st |-> st]
              ELSE satisfy([k \in 1..Len(args[1].args) |-> NameOf(args[1].args[k].tok)],
                           args[2].args, args[3].args, s, st, 0, maxRunsDefault)
         [] fn.kind = "try" ->
              \* newBuiltin('try'): the first argument; when that throws, the
              \* third one with the message bound to the name
              LET res == evaluate(Arg(args, 1), s, st)
              IN IF ~Failed(res) THEN res
                 ELSE evaluateWith(args[3], <<NameOf(args[2].tok)>>,
                                   <<[type |-> "string", value |-> res.tok.message]>>,
                                   s, res.st)
         [] OTHER -> applyFunction(fn, args, s, st0)

\* the loop of 'let' over its name/value pairs
letBindings(args, i, s, st, done) ==
    IF i > Len(args) - 1 THEN [tok |-> TList(done), st |-> st]
    ELSE LET value == evaluate(args[i + 1], s, st)
         IN IF Failed(value) THEN value
            ELSE letBindings(args, i + 2, s, value.st,
                    Append(done, [name |-> NameOf(args[i].tok), value |-> value.tok]))

\* mapOverList: the name is written into the scope map has made, as it is
mapOverList(lambda, name, list, scope, st, out) ==
    IF list = <<>> THEN [tok |-> TList(out), st |-> st]
    ELSE LET st1 == [st EXCEPT !.h[scope].variables = DictSet(@, name, Head(list))]
             r == evaluate(lambda, scope, st1)
         IN IF Failed(r) THEN r
            ELSE mapOverList(lambda, name, Tail(list), scope, r.st, Append(out, r.tok))

\* the list.filter callback of 'filter'
filterList(lambda, name, list, scope, st, out) ==
    IF list = <<>> THEN [tok |-> TList(out), st |-> st]
    ELSE LET st1 == [st EXCEPT !.h[scope].variables = DictSet(@, name, Head(list))]
             r == evaluate(lambda, scope, st1)
         IN IF Failed(r) THEN r
            ELSE filterList(lambda, name, Tail(list), scope, r.st,
                    IF Truthy(r.tok) THEN Append(out, Head(list)) ELSE out)

\* the loop of satisfy over the definitions: the dictionary `variables`
satisfyDefinitions(names, definitions, s, st, variables) ==
    IF names = <<>> THEN [tok |-> [type |-> "dict", value |-> variables], st |-> st]
    ELSE LET r == evaluate(Head(definitions), s, st)
         IN IF Failed(r) THEN r
            ELSE satisfyDefinitions(Tail(names), Tail(definitions), s, r.st,
                    DictSet(variables, Head(names), r.tok))

\* the loop of satisfy over the conditions: TBool(satisfied), or an error
satisfyConditions(conditions, nscope, st, i) ==
    IF i > Len(conditions) THEN [tok |-> TBool(TRUE), st |-> st]
    ELSE LET ok == evaluate(conditions[i], nscope, st)
         IN IF Failed(ok) THEN ok
            ELSE IF ok.tok.type # "boolean"
            THEN [tok |-> Error("jme.func.satisfy.condition not a boolean"), st |-> ok.st]
            ELSE IF ~ok.tok.value THEN [tok |-> TBool(FALSE), st |-> ok.st]
            ELSE satisfyConditions(conditions, nscope, ok.st, i + 1)

\* function satisfy: one pass of the while loop per call
satisfy(names, definitions, conditions, s, st, runs, maxRuns) ==
    IF Len(definitions) # Len(names)
    THEN [tok |-> Error("jme.func.satisfy.wrong number of definitions"), st |-> st]
    ELSE IF runs >= maxRuns
    THEN [tok |-> Error("jme.func.satisfy.took too many runs"), st |-> st]
    ELSE LET d == satisfyDefinitions(names, definitions, s, st, EmptyDict)
         IN IF Failed(d) THEN d
            ELSE LET n == NewChild(d.st.h, s)
                     nscope == n.scope
                     keys == DOMAIN d.tok.value
                     h2 == setVariables(n.h, nscope, names,
                                [k \in 1..Len(names) |-> d.tok.value[names[k]]])
                     c == satisfyConditions(conditions, nscope, [d.st EXCEPT !.h = h2], 1)
                 IN IF Failed(c) THEN c
                    ELSE IF c.tok.value
                    THEN [tok |-> TList([k \in 1..Len(names) |-> d.tok.value[names[k]]]),
                          st |-> c.st]
                    ELSE satisfy(names, definitions, conditions, s, c.st, runs + 1, maxRuns)

\* subtraction in the place of math.add
addMutSub(a, b) == a - b

\* math.add on real numbers, which newBuiltin('+', [TNum,TNum], ...) calls
add(a, b) == a + b

\* funcObj.evaluate on evaluated arguments, by the closure the object holds
applyFunction(fn, args, s, st0) ==
    LET st == Invoked(st0, fn)
    IN CASE fn.kind = "add" -> [tok |-> TNum(add(args[1].value, args[2].value)), st |-> st]
         [] fn.kind = "push" -> [tok |-> TList(Append(args[1].value, args[2])), st |-> st]
         [] fn.kind = "lt" -> [tok |-> TBool(args[1].value < args[2].value), st |-> st]
         [] fn.kind = "state" ->
              \* state_fn: the operations go to the nearest scope that has a state
              LET p == stateOwner(st.h, s)
              IN [tok |-> fn.data.return,
                  st |-> [st EXCEPT !.h[p].state = @ \o fn.data.state]]
         [] fn.kind = "jme" ->
              \* makeJMEFunction: the parameters are bound in a new scope
              LET n == NewChild(st.h, s)
                  scope == n.scope
                  h2 == assignVariables(n.h, scope,
                            SubSeq(fn.data.paramNames, 1, Len(args)), args)
              IN evaluate(fn.data.tree, scope, [st EXCEPT !.h = h2])
         [] OTHER -> [tok |-> fn.data.return, st |-> st]

\* Scope.prototype.evaluate(expr, variables): the dictionary goes, as it is,
\* into a new Scope([this]) and the tree is evaluated there
ScopeEvaluateWith(tree, names, values, s, st) ==
    LET n == NewChild(st.h, s)
        scope == n.scope
        h2 == assignVariables(n.h, scope, names, values)
    IN ScopeEvaluate(tree, scope, [st EXCEPT !.h = h2])

\* scope.evaluate(expr, variables) on a Scope or a StatefulScope
evaluateWith(tree, names, values, s, st) ==
    IF st.h[s].stateful
    THEN StatefulLeave(s, st, ScopeEvaluateWith(tree, names, values, s, StatefulEnter(s, st)))
    ELSE ScopeEvaluateWith(tree, names, values, s, st)

(***************************************************************************)
(* The built-in scope and the marking state functions, in the order the    *)
(* file constructs them: that order is the order of their ids.             *)
(***************************************************************************)
NoData == [return |-> null]

Builtins ==
    << funcObj(0, "+", <<"number", "number">>, "add", NoData),
       funcObj(1, "+", <<"list", "?">>, "push", NoData),
       funcObj(2, "<", <<"number", "number">>, "lt", NoData),
       funcObj(3, "if", <<"boolean", "?", "?">>, "if", NoData),
       funcObj(4, "satisfy", <<"list", "list", "list", "number">>, "satisfy", NoData),
       funcObj(5, "map", <<"?", "name", "?">>, "map", NoData),
       funcObj(6, "filter", <<"?", "name", "?">>, "filter", NoData),
       funcObj(7, "let", <<"?">>, "let", NoData) >>

set_credit(credit) == [op |-> "set_credit", credit |-> credit]

state_functions ==
    << funcObj(8, "correct", <<>>, "state",
               [return |-> TBool(TRUE), state |-> <<set_credit(1)>>]),
       funcObj(9, "incorrect", <<>>, "state",
               [return |-> TBool(FALSE), state |-> <<set_credit(0)>>]) >>

RECURSIVE addFunctions(_, _, _)
addFunctions(h, s, fns) ==
    IF fns = <<>> THEN h ELSE addFunctions(addFunction(h, s, Head(fns)), s, Tail(fns))

\* jme.builtinScope as scope 1 of a heap
BuiltinHeap == addFunctions(<<NewScope(0)>>, 1, Builtins)

\* new StatefulScope([parent]) allocated on the heap
AllocStateful(h, parent) ==
    addFunctions(
        Append(h, [NewScope(parent) EXCEPT !.stateful = TRUE, !.new_state = TRUE]),
        Len(h) + 1, state_functions)

\* the value of funcObjAcc once the file has loaded
LoadedFuncObjs == Len(Builtins) + Len(state_functions)

NewEvaluation(h) == [h |-> h, calls |-> <<>>, trace |-> <<>>]

(***************************************************************************)
(* Specification SpecScope: setVariable and deleteVariable called in any   *)
(* order on the scopes of a chain child -> middle -> root.                 *)
(***************************************************************************)
MaxVal == 1

ChainLen == 3

ScopeNames == {"x", "X"}

ScopeValues == {TNum(n) : n \in 1..MaxVal}

NoCall == [op |-> "none"]

NoRun == [pc |-> "none"]

InitScope ==
    /\ scopes = [s \in 1..ChainLen |-> NewScope(IF s = ChainLen THEN 0 ELSE s + 1)]
    /\ last = NoCall
    /\ funcObjAcc = LoadedFuncObjs
    /\ pool = {}
    /\ evaluations = 0
    /\ run = NoRun

SetVariable(s, name, value) ==
    /\ scopes' = setVariable(scopes, s, name, value)
    /\ last' = [op |-> "setVariable", scope |-> s, name |-> name]
    /\ UNCHANGED <<funcObjAcc, pool, evaluations, run>>

DeleteVariable(s, name) ==
    /\ scopes' = deleteVariable(scopes, s, name)
    /\ last' = [op |-> "deleteVariable", scope |-> s, name |-> name]
    /\ UNCHANGED <<funcObjAcc, pool, evaluations, run>>

NextScope ==
    \/ \E s \in 1..ChainLen, name \in ScopeNames, value \in ScopeValues :
          SetVariable(s, name, value)
    \/ \E s \in 1..ChainLen, name \in ScopeNames : DeleteVariable(s, name)

SpecScope == InitScope /\ [][NextScope]_vars

\* the scopes on the way from s to the root, nearest first
RECURSIVE Chain(_, _)
Chain(h, s) == IF s = 0 THEN <<>> ELSE <<s>> \o Chain(h, h[s].parent)

Defines(h, s, name) == name \in DOMAIN h[s].variables

MarksDeleted(h, s, name) == name \in h[s].deleted.variables

\* the positions in the chain of s whose scope defines name or marks it deleted
Deciding(h, s, name) ==
    {i \in 1..Len(Chain(h, s)) :
        Defines(h, Chain(h, s)[i], name) \/ MarksDeleted(h, Chain(h, s)[i], name)}

Nearest(h, s, name) ==
    Chain(h, s)[CHOOSE i \in Deciding(h, s, name) :
                    \A j \in Deciding(h, s, name) : i <= j]

MaxFuncObjs == 2

FnScopes == {2, 3}

FnSignatures == {<<"number">>, <<"?">>}

FnArguments == {NumT(1), BoolT(TRUE)}

InitFn ==
    /\ scopes = Append(Append(BuiltinHeap, NewScope(1)), NewScope(2))
    /\ last = NoCall
    /\ funcObjAcc = LoadedFuncObjs
    /\ pool = {}
    /\ evaluations = 0
    /\ run = NoRun

\* new jme.funcObj("f", intype, ...): takes the next id
NewFuncObj(intype) ==
    /\ funcObjAcc < LoadedFuncObjs + MaxFuncObjs
    /\ pool' = pool \cup {funcObj(funcObjAcc, "f", intype, "javascript",
                                  [return |-> TNum(funcObjAcc)])}
    /\ funcObjAcc' = funcObjAcc + 1
    /\ last' = [op |-> "funcObj"]
    /\ UNCHANGED <<scopes, evaluations, run>>

Registered(h, s, fn) ==
    /\ fn.name \in DOMAIN h[s].functions
    /\ \E i \in 1..Len(h[s].functions[fn.name]) : h[s].functions[fn.name][i] = fn

AddFunction(s, fn) ==
    /\ ~Registered(scopes, s, fn)
    /\ scopes' = addFunction(scopes, s, fn)
    /\ last' = [op |-> "addFunction", scope |-> s]
    /\ UNCHANGED <<funcObjAcc, pool, evaluations, run>>

GetFunction(s, name) ==
    /\ scopes' = getFunction(scopes, s, name).h
    /\ last' = [op |-> "getFunction", scope |-> s, name |-> name,
                fns |-> getFunction(scopes, s, name).fns]
    /\ UNCHANGED <<funcObjAcc, pool, evaluations, run>>

\* scope.evaluate of the call f(arg)
EvaluateCall(s, arg) ==
    LET r == evaluate(FnT("f", <<arg>>), s, NewEvaluation(scopes))
    IN /\ scopes' = r.st.h
       /\ last' = [op |-> "evaluate", scope |-> s, name |-> "f", args |-> <<arg.tok>>,
                   tok |-> r.tok, calls |-> r.st.calls]
       /\ UNCHANGED <<funcObjAcc, pool, evaluations, run>>

NextFn ==
    \/ \E intype \in FnSignatures : NewFuncObj(intype)
    \/ \E s \in FnScopes, fn \in pool : AddFunction(s, fn)
    \/ \E s \in FnScopes : GetFunction(s, "f")
    \/ \E s \in FnScopes, arg \in FnArguments : EvaluateCall(s, arg)

SpecFn == InitFn /\ [][NextFn]_vars

\* every definition of name registered on the scope or one of its ancestors
Definitions(h, s, name) ==
    {fn \in pool \cup {Builtins[i] : i \in 1..Len(Builtins)} :
        fn.name = name /\ \E k \in 1..Len(Chain(h, s)) : Registered(h, Chain(h, s)[k], fn)}

Accepting(h, s, name, args) == {fn \in Definitions(h, s, name) : typecheck(fn, args)}

\* C7: the definition a non-lazy call invokes is, among all definitions of the
\* name on the scope and its ancestors whose typecheck accepts the evaluated
\* arguments, the one with the smallest id, in whatever order addFunction
\* registered them.
C7_EarliestMatch ==
    (last.op = "evaluate" /\ last.calls # <<>>) =>
        LET accepting == Accepting(scopes, last.scope, last.name, last.args)
        IN /\ accepting # {}
           /\ last.calls = <<(CHOOSE fn \in accepting :
                                 \A g \in accepting : fn.id <= g.id).id>>

(***************************************************************************)
(* Specification SpecEval: expressions are evaluated against a marking     *)
(* scope (2, a StatefulScope on the built-in scope) and a scope made on    *)
(* top of it (3), whose variables are set and deleted in between.  The     *)
(* scopes an evaluation makes are unreachable once it returns: they leave  *)
(* the heap and are kept in `last`.                                        *)
(***************************************************************************)
MaxEvaluations == 1

MaxNum == 2

EvalScopes == {2, 3}

\* the custom function g(x) = x + 1 of the question, made by makeFunction
g == funcObj(LoadedFuncObjs, "g", <<"number">>, "jme",
             [return |-> null, paramNames |-> <<"x">>,
              tree |-> OpT("+", <<NameT("x"), NumT(1)>>)])

InitEval ==
    /\ scopes = Append(addFunction(AllocStateful(BuiltinHeap, 1), 2, g), NewScope(2))
    /\ last = NoCall
    /\ funcObjAcc = LoadedFuncObjs + 1
    /\ pool = {g}
    /\ evaluations = 0
    /\ run = NoRun

If(c, a, b) == FnT("if", <<c, a, b>>)

Tests ==
    { BoolT(TRUE), BoolT(FALSE), OpT("<", <<NameT("x"), NumT(2)>>),
      FnT("correct", <<>>), OpT("+", <<NumT(1), BoolT(TRUE)>>) }

Branches == { NumT(0), FnT("incorrect", <<>>), FnT("nosuch", <<>>) }

IfTrees == { If(c, a, b) : c \in Tests, a \in Branches, b \in Branches } \
           { If(c, a, a) : c \in Tests, a \in Branches }

xPlus1 == OpT("+", <<NameT("x"), NumT(1)>>)

List12 == ListT(<<NumT(1), NumT(2)>>)

BindingTrees ==
    { FnT("let", <<NameT("x"), NumT(1), xPlus1>>),
      FnT("let", <<NameT("X"), xPlus1, FnT("correct", <<>>)>>),
      FnT("map", <<xPlus1, NameT("x"), List12>>),
      FnT("map", <<FnT("g", <<NameT("y")>>), NameT("y"), List12>>),
      FnT("map", <<OpT("+", <<NameT("X"), NumT(1)>>), NameT("X"), List12>>),
      FnT("filter", <<OpT("<", <<NameT("x"), NumT(2)>>), NameT("x"), List12>>),
      FnT("satisfy", <<ListT(<<NameT("y")>>), ListT(<<xPlus1>>),
                       ListT(<<OpT("<", <<NameT("x"), NameT("y")>>)>>)>>),
      FnT("g", <<NumT(1)>>),
      FnT("g", <<NameT("x")>>) }

EvalTrees == IfTrees \cup BindingTrees

EvalNames == {"x"}

EvalValues == {TNum(n) : n \in 1..MaxNum}

\* the keys a caller gives in the variables dictionary of scope.evaluate
DictNames == {"x", "X"}

\* what an evaluation leaves: the scopes that were there, and the ones it made
Evaluated(s, tree, r) ==
    /\ evaluations < MaxEvaluations
    /\ evaluations' = evaluations + 1
    /\ scopes' = SubSeq(r.st.h, 1, Len(scopes))
    /\ last' = [op |-> "evaluate", scope |-> s, tree |-> tree, tok |-> r.tok,
                trace |-> r.st.trace, pre |-> scopes,
                fresh |-> SubSeq(r.st.h, Len(scopes) + 1, Len(r.st.h))]
    /\ UNCHANGED <<funcObjAcc, pool, run>>

\* scope.evaluate(tree)
Evaluate(s, tree) == Evaluated(s, tree, evaluate(tree, s, NewEvaluation(scopes)))

\* scope.evaluate(tree, {name: value})
EvaluateWith(s, tree, name, value) ==
    Evaluated(s, tree, evaluateWith(tree, <<name>>, <<value>>, s, NewEvaluation(scopes)))

NextEval ==
    \/ \E s \in EvalScopes, name \in EvalNames, value \in EvalValues :
          SetVariable(s, name, value)
    \/ \E name \in EvalNames : DeleteVariable(2, name)
    \/ \E s \in EvalScopes, tree \in EvalTrees : Evaluate(s, tree)
    \/ \E s \in EvalScopes, tree \in {xPlus1, FnT("correct", <<>>)},
          name \in DictNames, value \in EvalValues : EvaluateWith(s, tree, name, value)

SpecEval == InitEval /\ [][NextEval]_vars

IsIf(tree) == tree.tok.type = "function" /\ tree.tok.name = "if"

InTrace(tree) == \E i \in 1..Len(last.trace) : last.trace[i] = tree

\* the heap as the evaluation on s finds it once StatefulScope.evaluate has
\* put the state of s aside
Inside(h, s) ==
    IF h[s].stateful THEN [h EXCEPT ![s].new_state = FALSE, ![s].state = <<>>] ELSE h

\* C8: if(c, a, b) evaluates c, then only the branch c selects: its result and
\* the marking state it leaves are those of c followed by that branch, and the
\* other branch is never evaluated; when c fails, neither branch is.
C8_IfShortCircuits ==
    (last.op = "evaluate" /\ IsIf(last.tree)) =>
        LET s == last.scope
            p == stateOwner(last.pre, s)
            c == last.tree.args[1]
            test == evaluate(c, s, NewEvaluation(Inside(last.pre, s)))
            taken == IF Truthy(test.tok) THEN last.tree.args[2] ELSE last.tree.args[3]
            untaken == IF Truthy(test.tok) THEN last.tree.args[3] ELSE last.tree.args[2]
            branch == evaluate(taken, s, test.st)
        IN IF Failed(test)
           THEN /\ last.tok = test.tok
                /\ ~InTrace(last.tree.args[2])
                /\ ~InTrace(last.tree.args[3])
           ELSE /\ last.tok = branch.tok
                /\ ~InTrace(untaken)
                /\ ~Failed(branch) => scopes[p].state = branch.st.h[p].state

\* a true test with a side effect, and an else-branch that would have had one
C8_Witness ==
    /\ last.op = "evaluate"
    /\ last.tree = If(FnT("correct", <<>>), NumT(0), FnT("incorrect", <<>>))
    /\ last.tok = TNum(0)
    /\ scopes[2].state = <<set_credit(1)>>

\* C10: evaluating let, map, filter, satisfy, a call of a JME function, or a
\* tree with a dictionary of variables, leaves variables, functions, rulesets
\* and deleted of the scope it is given, and of its ancestors, as they were.
C10_ScopesNotMutated ==
    [][last'.op = "evaluate" =>
          \A s \in 1..Len(scopes) :
              /\ scopes'[s].variables = scopes[s].variables
              /\ scopes'[s].functions = scopes[s].functions
              /\ scopes'[s].rulesets = scopes[s].rulesets
              /\ scopes'[s].deleted = scopes[s].deleted]_vars

\* a name the given scope binds was bound to another value in a scope the
\* evaluation made, and the evaluation returned
C10_Witness ==
    /\ last.op = "evaluate"
    /\ ~IsError(last.tok)
    /\ "x" \in DOMAIN scopes[last.scope].variables
    /\ \E i \in 1..Len(last.fresh) :
          /\ "x" \in DOMAIN last.fresh[i].variables
          /\ last.fresh[i].variables["x"] # scopes[last.scope].variables["x"]

\* the scopes there are once an evaluation has returned: those of the heap
\* and those the evaluation made
Live == scopes \o (IF last.op = "evaluate" THEN last.fresh ELSE <<>>)

IsCaseFolded(name) == toLowerCase(name) = name

\* C11: the variables of every scope, those an evaluation makes included, are
\* keyed by lower-case names only.
C11_CaseFolded ==
    \A i \in 1..Len(Live) : \A n \in DOMAIN Live[i].variables : IsCaseFolded(n)

(***************************************************************************)
(* The variable resolver: jme.variables.makeVariables and computeVariable. *)
(* `run` holds the call in progress: the mapping todo, the gate condition, *)
(* the stack of computeVariable activations (outermost first), and where   *)
(* makeVariables has got to.  run.evals lists the names whose tree has     *)
(* been handed to jme.evaluate, run.pre is the heap makeVariables was      *)
(* called on, run.failed tells that an evaluation threw, run.steps counts  *)
(* the steps taken.                                                        *)
(***************************************************************************)
Names == {"a", "b", "c"}

\* the names in the order Array.prototype.sort puts them
NameOrder == <<"a", "b", "c">>

RECURSIVE FreeNames(_)
FreeNames(tree) ==
    IF IsLeaf(tree)
    THEN IF tree.tok.type = "name" THEN {toLowerCase(tree.tok.name)} ELSE {}
    ELSE UNION {FreeNames(tree.args[i]) : i \in 1..Len(tree.args)}

\* jme.findvars on a tree of names, numbers and operations: merge leaves the
\* names sorted, each once
findvars(tree) == SelectSeq(NameOrder, LAMBDA n : n \in FreeNames(tree))

\* an entry of todo: the tree and the names it depends on
Definition(tree) == [tree |-> tree, vars |-> findvars(tree)]

\* the scope makeVariables is given: the newest of the heap
Target(h) == Len(h)

\* scope.getVariable(name)!==undefined, the test computeVariable returns on;
\* here by the scope's own dictionary alone
computedMutOwn(h, s, name) == name \in DOMAIN h[s].variables

computed(h, s, name) == getVariable(h, s, name) # undefined

\* path.contains(name); here never
containsMutNever(path, name) == FALSE

contains(path, name) == \E i \in 1..Len(path) : path[i] = name

\* scope.variables[x]===undefined, the test the loop over v.vars makes; here
\* never, so that no dependency is computed
unresolvedMutNever(h, s, x) == FALSE

unresolved(h, s, x) == x \notin DOMAIN h[s].variables

\* newpath = path.slice(0); newpath.splice(0,0,name); here pushed at the end
newpathMutPush(path, name) == Append(path, name)

newpath(path, name) == <<name>> \o path

\* the catch around the recursive call, for the dependency x
catch(e, x) ==
    IF e.message \in {"jme.variables.circular reference", "jme.variables.variable not defined"}
    THEN e
    ELSE [message |-> "jme.variables.error computing dependency", name |-> x]

\* an error thrown by the topmost activation, as it leaves the outermost one
RECURSIVE unwind(_, _)
unwind(stack, e) ==
    IF Len(stack) <= 1 THEN e
    ELSE unwind(SubSeq(stack, 1, Len(stack) - 1), catch(e, stack[Len(stack)].name))

\* if(conditionSatisfied) in makeVariables; here the loop is always entered
afterConditionMutLoop(conditionSatisfied) == "loop"

afterCondition(conditionSatisfied) == IF conditionSatisfied THEN "loop" ELSE "done"

Top == run.stack[Len(run.stack)]

Pop == SubSeq(run.stack, 1, Len(run.stack) - 1)

Activation(name, path) == [name |-> name, path |-> path, i |-> 0]

Throw(e) ==
    run' = [run EXCEPT !.steps = @ + 1, !.pc = "error", !.stack = <<>>, !.err = unwind(run.stack, e)]

Entered == [k \in 1..(Len(run.stack) - 1) |-> run.stack[k].name]

Frame == UNCHANGED <<last, funcObjAcc, pool, evaluations>>

\* makeVariables up to its first call of computeFn
MakeVariables ==
    /\ run.pc = "start"
    /\ run' = [run EXCEPT !.steps = @ + 1, !.pc = IF run.condition = [tok |-> null] THEN "loop" ELSE "gate"]
    /\ UNCHANGED scopes
    /\ Frame

\* condition_vars.map(...): computeFn on the next free variable of the gate
GateVariable ==
    /\ run.pc = "gate"
    /\ run.stack = <<>>
    /\ run.gi <= Len(run.condition_vars)
    /\ run' = [run EXCEPT !.steps = @ + 1, !.gi = @ + 1,
                          !.stack = <<Activation(run.condition_vars[run.gi], <<>>)>>]
    /\ UNCHANGED scopes
    /\ Frame

\* conditionSatisfied = jme.evaluate(condition,scope).value
GateCondition ==
    /\ run.pc = "gate"
    /\ run.stack = <<>>
    /\ run.gi > Len(run.condition_vars)
    /\ LET r == evaluate(run.condition, Target(scopes), NewEvaluation(scopes))
       IN /\ scopes' = SubSeq(r.st.h, 1, Len(scopes))
          /\ IF Failed(r)
             THEN run' = [run EXCEPT !.steps = @ + 1, !.pc = "error", !.failed = TRUE,
                                     !.err = [message |-> r.tok.message]]
             ELSE run' = [run EXCEPT !.steps = @ + 1, !.conditionSatisfied = Truthy(r.tok),
                                     !.gate = r.tok,
                                     !.pc = afterCondition(Truthy(r.tok))]
    /\ Frame

\* for(var x in todo): computeFn on the next name of the mapping
LoopVariable(x) ==
    /\ run.pc = "loop"
    /\ run.stack = <<>>
    /\ x \in run.remaining
    /\ run' = [run EXCEPT !.steps = @ + 1, !.remaining = @ \ {x}, !.stack = <<Activation(x, <<>>)>>]
    /\ UNCHANGED scopes
    /\ Frame

\* makeVariables returns {variables, conditionSatisfied, scope}
Return ==
    /\ run.pc = "loop"
    /\ run.stack = <<>>
    /\ run.remaining = {}
    /\ run' = [run EXCEPT !.steps = @ + 1, !.pc = "done"]
    /\ UNCHANGED scopes
    /\ Frame

\* where the topmost activation of computeVariable is: at its entry, in a
\* pass of its loop over v.vars, or past the loop
AtEntry == run.stack # <<>> /\ Top.i = 0

InLoop ==
    /\ run.stack # <<>>
    /\ Top.i >= 1
    /\ Top.i <= Len(run.todo[Top.name].vars)

AboutToEvaluate ==
    /\ run.stack # <<>>
    /\ Top.i >= 1
    /\ Top.i > Len(run.todo[Top.name].vars)

\* the deepest nesting a further activation may start from
MaxDepth == Cardinality(Names) + 1

\* computeVariable from its entry to the loop over v.vars
ComputeVariable ==
    /\ AtEntry
    /\ IF computed(scopes, Target(scopes), Top.name)
       THEN run' = [run EXCEPT !.steps = @ + 1, !.stack = Pop]
       ELSE IF contains(Top.path, Top.name)
       THEN Throw([message |-> "jme.variables.circular reference",
                   name |-> Top.name, path |-> Top.path, entered |-> Entered])
       ELSE IF Top.name \notin DOMAIN run.todo
       THEN Throw([message |-> "jme.variables.variable not defined", name |-> Top.name])
       ELSE run' = [run EXCEPT !.steps = @ + 1, !.stack[Len(run.stack)].i = 1]
    /\ UNCHANGED scopes
    /\ Frame

\* one pass of the loop over v.vars: the dependency is computed if need be
Dependency ==
    /\ InLoop
    /\ Len(run.stack) <= MaxDepth
    /\ LET x == run.todo[Top.name].vars[Top.i]
           next == [run.stack EXCEPT ![Len(run.stack)].i = @ + 1]
       IN IF unresolved(scopes, Target(scopes), x)
          THEN run' = [run EXCEPT !.steps = @ + 1, !.stack =
                          Append(next, Activation(x, newpath(Top.path, Top.name)))]
          ELSE run' = [run EXCEPT !.steps = @ + 1, !.stack = next]
    /\ UNCHANGED scopes
    /\ Frame

\* scope.variables[name] = jme.evaluate(v.tree,scope), once the loop is over
EvaluateVariable ==
    /\ AboutToEvaluate
    /\ LET r == evaluate(run.todo[Top.name].tree, Target(scopes), NewEvaluation(scopes))
           h == SubSeq(r.st.h, 1, Len(scopes))
       IN IF Failed(r)
          THEN /\ scopes' = h
               /\ run' = [run EXCEPT
                            !.pc = "error", !.stack = <<>>, !.failed = TRUE,
                            !.evals = Append(@, Top.name),
                            !.err = unwind(run.stack,
                                [message |-> "jme.variables.error evaluating variable",
                                 name |-> Top.name])]
          ELSE /\ scopes' = [h EXCEPT ![Target(h)].variables = DictSet(@, Top.name, r.tok)]
               /\ run' = [run EXCEPT !.steps = @ + 1, !.stack = Pop, !.evals = Append(@, Top.name)]
    /\ Frame

NextVars ==
    \/ MakeVariables
    \/ GateVariable
    \/ GateCondition
    \/ \E x \in Names : LoopVariable(x)
    \/ Return
    \/ ComputeVariable
    \/ Dependency
    \/ EvaluateVariable

(***************************************************************************)
(* Specification SpecVars: makeVariables on any mapping of up to three     *)
(* names, with or without a gate, against a scope whose ancestors may bind *)
(* or mark deleted some of the names.  The scope itself has no deleted     *)
(* names: MarkingScript.evaluate makes it afresh, and the one caller of    *)
(* deleteVariable marks the scope that becomes its parent.                 *)
(***************************************************************************)
MaxLit == 2

Plus1(x) == OpT("+", <<NameT(x), NumT(1)>>)

Sum(x, y) == OpT("+", <<NameT(x), NameT(y)>>)

Pairs == {p \in (1..Len(NameOrder)) \X (1..Len(NameOrder)) : p[1] < p[2]}

Trees ==
    {NumT(n) : n \in 1..MaxLit} \cup {Plus1(x) : x \in Names}
        \cup {Sum(NameOrder[p[1]], NameOrder[p[2]]) : p \in Pairs}

Todos == UNION {[D -> {Definition(t) : t \in Trees}] : D \in SUBSET Names}

NoCondition == [tok |-> null]

Conditions == {NoCondition, OpT("<", <<NameT("c"), NumT(2)>>)}

\* the scope chain built-in <- 2 <- 3 <- 4, with what the ancestors and the
\* scope hold before the call
Chain4 == Append(Append(Append(BuiltinHeap, NewScope(1)), NewScope(2)), NewScope(3))

Bindings ==
    { Chain4,
      setVariable(Chain4, 4, "a", TNum(0)),
      setVariable(Chain4, 3, "a", TNum(0)),
      deleteVariable(setVariable(Chain4, 2, "a", TNum(0)), 3, "a"),
      setVariable(Chain4, 3, "b", TBool(TRUE)) }

NewRun(todo, condition, h) ==
    [pc |-> "start", todo |-> todo, condition |-> condition,
     condition_vars |-> IF condition = NoCondition THEN <<>> ELSE findvars(condition),
     gi |-> 1, remaining |-> DOMAIN todo, stack |-> <<>>,
     conditionSatisfied |-> TRUE, gate |-> null, err |-> [message |-> ""],
     evals |-> <<>>, failed |-> FALSE, pre |-> h, steps |-> 0]

InitVars ==
    /\ scopes \in Bindings
    /\ \E todo \in Todos, condition \in Conditions : run = NewRun(todo, condition, scopes)
    /\ last = NoCall
    /\ funcObjAcc = LoadedFuncObjs
    /\ pool = {}
    /\ evaluations = 0

SpecVars == InitVars /\ [][NextVars]_vars

Range(seq) == {seq[i] : i \in 1..Len(seq)}

Reverse(seq) == [i \in 1..Len(seq) |-> seq[Len(seq) + 1 - i]]

\* the names the definition of n lists
Deps(todo, n) == IF n \in DOMAIN todo THEN Range(todo[n].vars) ELSE {}

RECURSIVE Closure(_, _, _)
Closure(todo, S, k) ==
    IF k = 0 THEN S
    ELSE Closure(todo, S \cup UNION {Deps(todo, m) : m \in S}, k - 1)

\* the names n depends on, directly or through other definitions
DependsOn(todo, n) == Closure(todo, Deps(todo, n), Cardinality(Names))

CycleNames(todo) == {n \in DOMAIN todo : n \in DependsOn(todo, n)}

\* every name a definition or the gate mentions has a definition
AllDefined(todo, condition_vars) ==
    /\ \A n \in DOMAIN todo : Deps(todo, n) \subseteq DOMAIN todo
    /\ Range(condition_vars) \subseteq DOMAIN todo

\* the names the gate depends on, directly or through definitions
GateDeps ==
    Range(run.condition_vars) \cup
        UNION {DependsOn(run.todo, v) : v \in Range(run.condition_vars)}

Bound(h, n) == getVariable(h, Target(h), n) # undefined

RECURSIVE Expected(_)
RECURSIVE Denote(_)
Expected(n) ==
    IF Bound(run.pre, n) THEN getVariable(run.pre, Target(run.pre), n)
    ELSE TNum(Denote(run.todo[n].tree))

Denote(tree) ==
    IF IsLeaf(tree)
    THEN IF tree.tok.type = "name" THEN Expected(tree.tok.name).value ELSE tree.tok.value
    ELSE Denote(tree.args[1]) + Denote(tree.args[2])

C5_GateFalseStops ==
    run.gate = TBool(FALSE) =>
        /\ run.pc = "done"
        /\ ~run.conditionSatisfied
        /\ Range(run.evals) \subseteq GateDeps
        /\ \A s \in 1..Len(scopes) :
              \A n \in DOMAIN scopes[s].variables :
                  \/ n \in GateDeps /\ s = Target(scopes)
                  \/ /\ n \in DOMAIN run.pre[s].variables
                     /\ scopes[s].variables[n] = run.pre[s].variables[n]

\* the gate was false after two names were evaluated for it, and a third name
\* of the mapping was left alone
C5_Witness ==
    /\ run.gate = TBool(FALSE)
    /\ run.pc = "done"
    /\ Len(run.evals) = 2
    /\ \E n \in DOMAIN run.todo : n \notin GateDeps /\ ~Bound(scopes, n)

InitCycle ==
    /\ InitVars
    /\ CycleNames(run.todo) # {}
    /\ AllDefined(run.todo, run.condition_vars)

SpecCycle == InitCycle /\ [][NextVars]_vars

\* a bound on the steps of one call, for N names: makeVariables takes 3 of its
\* own and starts at most N + 1 activations of computeVariable; at most N
\* activations get as far as their dependencies, each starting at most N more
\* in N passes of its loop and evaluating once; every activation is entered once
StepBound ==
    LET N == Cardinality(Names)
    IN 3 + (N + 1) + (N + 1 + N * N) + N * N + N

Finished == run.pc \in {"done", "error"}

Circular == run.pc = "error" /\ run.err.message = "jme.variables.circular reference"

\* none of the names on a cycle was bound when makeVariables was called
CycleUnbound == \A n \in CycleNames(run.todo) : ~Bound(run.pre, n)

\* resolution nests no deeper than the names there are, has ended after
\* StepBound steps, and until it has ended some step can be taken
Terminates ==
    /\ Len(run.stack) <= MaxDepth
    /\ run.steps <= StepBound
    /\ ~Finished =>
          \/ run.pc = "start"
          \/ run.pc \in {"gate", "loop"} /\ run.stack = <<>>
          \/ AtEntry
          \/ InLoop /\ Len(run.stack) <= MaxDepth
          \/ AboutToEvaluate

\* C1, as the code has it: resolution of a mapping with a cycle always ends;
\* unless a tree evaluation fails, or a gate is given and evaluates to false,
\* it ends with the circular reference error.
C1_CycleRaises ==
    /\ Terminates
    /\ (Finished /\ CycleUnbound /\ ~run.failed /\ run.gate # TBool(FALSE)) => Circular

\* the error was raised after other names had been evaluated
C1_Witness ==
    /\ Circular
    /\ CycleUnbound
    /\ ~run.failed
    /\ run.evals # <<>>

\* C1 as stated: resolution always ends, and unless a tree evaluation fails
\* it ends with the circular reference error, never by returning.
C1_AsStated ==
    /\ Terminates
    /\ (Finished /\ CycleUnbound /\ ~run.failed) => Circular

\* C4, as the code has it: the circular reference error carries the name met
\* again and the names in progress, innermost first.
C4_PathInnermostFirst ==
    Circular =>
        /\ run.err.path = Reverse(run.err.entered)
        /\ contains(run.err.path, run.err.name)

\* {a: b+1, b: a+1} entered at a: name a, path [b, a]
C4_Witness ==
    /\ Circular
    /\ DOMAIN run.todo = {"a", "b"}
    /\ run.todo["a"].tree = Plus1("b")
    /\ run.todo["b"].tree = Plus1("a")
    /\ run.err.entered = <<"a", "b">>
    /\ run.err.name = "a"
    /\ run.err.path = <<"b", "a">>

\* C4 as stated: the path lists the names in progress outermost first.
C4_AsStated == Circular => run.err.path = run.err.entered

(***************************************************************************)
(* Pattern matching (jme.rules).  A match is [ok, d]: matchTree's `false`  *)
(* is ok = FALSE, its dictionary of captured subtrees is d.                *)
(***************************************************************************)
isOp(tok, op) == tok.type = "op" /\ tok.name = op

isName(tok, name) == tok.type = "name" /\ tok.name = name

NoMatch == [ok |-> FALSE, d |-> EmptyDict]

Matched(d) == [ok |-> TRUE, d |-> d]

commutative == {"*", "+", "and", "="}

endTermNames == {"??", "m_nothing", "m_number"}

RECURSIVE isEndTerm(_)
isEndTerm(term) ==
    IF \/ term.tok.type = "function" /\ term.tok.name \in {"m_all", "m_pm", "m_not", "m_commute"}
       \/ isOp(term.tok, ";")
    THEN isEndTerm(term.args[1])
    ELSE IF term.tok.type = "function" /\ term.tok.name = "m_any"
    THEN \E i \in 1..Len(term.args) : isEndTerm(term.args[i])
    ELSE term.tok.type = "name" /\ term.tok.name \in endTermNames

\* the while loop of getCommutingTerms that takes the ;name groups off an argument
RECURSIVE stripNames(_, _)
stripNames(arg, argnames) ==
    IF isOp(arg.tok, ";")
    THEN stripNames(arg.args[1], Append(argnames, arg.args[2].tok.name))
    ELSE [arg |-> arg, argnames |-> argnames]

\* a - b read as a + (-b) when the terms of a sum are wanted
minusAsPlus(tree, op) ==
    IF op = "+" /\ isOp(tree.tok, "-")
    THEN OpT("+", <<tree.args[1], OpT("-u", <<tree.args[2]>>)>>)
    ELSE tree

RECURSIVE getCommutingTerms(_, _, _)
RECURSIVE commutingArgs(_, _, _, _, _)
getCommutingTerms(tree0, op, names) ==
    LET tree == minusAsPlus(tree0, op)
    IN IF IsLeaf(tree) \/ NameOf(tree.tok) # op
       THEN [terms |-> <<tree>>, termnames |-> <<>>]
       ELSE LET r == commutingArgs(tree.args, op, names,
                        [terms |-> <<>>, termnames |-> <<>>],
                        [terms |-> <<>>, termnames |-> <<>>])
            IN r

\* the loop of getCommutingTerms over tree.args, then rest put after the terms
commutingArgs(args, op, names, out, rest) ==
    IF args = <<>>
    THEN [terms |-> out.terms \o rest.terms, termnames |-> out.termnames \o rest.termnames]
    ELSE LET a == stripNames(Head(args), names)
             arg == a.arg
         IN IF isOp(arg.tok, op) \/ (op = "+" /\ isOp(arg.tok, "-"))
            THEN LET sub == getCommutingTerms(arg, op, a.argnames)
                 IN commutingArgs(Tail(args), op, names,
                        [terms |-> out.terms \o sub.terms,
                         termnames |-> out.termnames \o sub.termnames], rest)
            ELSE IF isName(arg.tok, "?") \/ isEndTerm(arg)
            THEN commutingArgs(Tail(args), op, names, out,
                        [terms |-> Append(rest.terms, arg),
                         termnames |-> Append(rest.termnames, a.argnames)])
            ELSE commutingArgs(Tail(args), op, names,
                        [terms |-> Append(out.terms, arg),
                         termnames |-> Append(out.termnames, a.argnames)], rest)

\* namedTerms[name].push(m[name]) for every name of the match m
pushMatch(namedTerms, m) ==
    [n \in (DOMAIN namedTerms) \cup (DOMAIN m) |->
        (IF n \in DOMAIN namedTerms THEN namedTerms[n] ELSE <<>>)
            \o (IF n \in DOMAIN m THEN <<m[n]>> ELSE <<>>)]

\* namedTerms[name].push(term) for every name given to the rule term
RECURSIVE pushNames(_, _, _)
pushNames(namedTerms, names, term) ==
    IF names = <<>> THEN namedTerms
    ELSE pushNames(pushMatch(namedTerms, [n \in {Head(names)} |-> term]), Tail(names), term)

\* the terms captured under one name, joined again by the commuting operation
RECURSIVE joinTerms(_, _)
joinTerms(terms, op) ==
    IF Len(terms) = 1 THEN terms[1]
    ELSE OpT(op, <<joinTerms(SubSeq(terms, 1, Len(terms) - 1), op), terms[Len(terms)]>>)

\* ruleTerms.termnames[j], undefined when the list is shorter
termnamesAt(ruleTerms, j) ==
    IF j <= Len(ruleTerms.termnames) THEN ruleTerms.termnames[j] ELSE <<>>

RECURSIVE matchTree(_, _, _)
RECURSIVE matchAny(_, _, _, _)
RECURSIVE matchArgs(_, _, _, _, _)
RECURSIVE matchTerms(_, _, _, _, _, _)

\* m_any: the first alternative that matches
matchAny(alternatives, i, exprTree, doCommute) ==
    IF i > Len(alternatives) THEN NoMatch
    ELSE LET m == matchTree(alternatives[i], exprTree, doCommute)
         IN IF m.ok THEN m ELSE matchAny(alternatives, i + 1, exprTree, doCommute)

\* the arguments of the rule matched one by one against those of the expression
matchArgs(ruleArgs, exprArgs, i, doCommute, d) ==
    IF i > Len(ruleArgs) THEN Matched(d)
    ELSE IF i > Len(exprArgs) THEN NoMatch
    ELSE LET m == matchTree(ruleArgs[i], exprArgs[i], doCommute)
         IN IF ~m.ok THEN NoMatch
            ELSE matchArgs(ruleArgs, exprArgs, i + 1, doCommute,
                    [n \in (DOMAIN d) \cup (DOMAIN m.d) |->
                        IF n \in DOMAIN m.d THEN m.d[n] ELSE d[n]])

\* the rule term the next term of the expression is given to: the first one
\* that matches it and is not taken yet (or is m_all); 0 when there is none
firstRuleTerm(ruleTerms, exprTerm, matchedRules, doCommute) ==
    LET fits == {j \in 1..Len(ruleTerms.terms) :
                    /\ j \notin matchedRules \/ NameOf(ruleTerms.terms[j].tok) = "m_all"
                    /\ matchTree(ruleTerms.terms[j], exprTerm, doCommute).ok}
    IN IF fits = {} THEN 0 ELSE CHOOSE j \in fits : \A k \in fits : j <= k

\* the loop over the terms of the expression, then the two loops after it
matchTerms(ruleTerms, exprTerms, i, matchedRules, namedTerms, c) ==
    IF i > Len(exprTerms.terms)
    THEN IF \E j \in 1..Len(ruleTerms.terms) :
                ~isEndTerm(ruleTerms.terms[j]) /\ j \notin matchedRules
         THEN NoMatch
         ELSE Matched([n \in DOMAIN namedTerms |-> joinTerms(namedTerms[n], c.op)])
    ELSE LET j == firstRuleTerm(ruleTerms, exprTerms.terms[i], matchedRules, c.doCommute)
         IN IF j = 0 THEN NoMatch
            ELSE LET m == matchTree(ruleTerms.terms[j], exprTerms.terms[i], c.doCommute)
                 IN matchTerms(ruleTerms, exprTerms, i + 1, matchedRules \cup {j},
                        pushNames(pushMatch(namedTerms, m.d), termnamesAt(ruleTerms, j),
                                  exprTerms.terms[i]),
                        c)

\* jme.rules.matchTree
matchTree(ruleTree, exprTree, doCommute) ==
    LET ruleTok == ruleTree.tok
        exprTok == exprTree.tok
    IN IF isOp(ruleTok, ";")
       THEN LET m == matchTree(ruleTree.args[1], exprTree, doCommute)
            IN IF m.ok THEN Matched(DictSet(m.d, ruleTree.args[2].tok.name, exprTree))
               ELSE NoMatch
       ELSE IF ruleTok.type = "name" /\ ruleTok.name \in {"?", "??"} THEN Matched(EmptyDict)
       ELSE IF ruleTok.type = "name" /\ ruleTok.name = "m_number"
       THEN IF exprTok.type = "number" THEN Matched(EmptyDict) ELSE NoMatch
       ELSE IF ruleTok.type = "function" /\ ruleTok.name = "m_any"
       THEN matchAny(ruleTree.args, 1, exprTree, doCommute)
       ELSE IF ruleTok.type = "function" /\ ruleTok.name = "m_all"
       THEN matchTree(ruleTree.args[1], exprTree, doCommute)
       ELSE IF ruleTok.type = "function" /\ ruleTok.name = "m_not"
       THEN IF matchTree(ruleTree.args[1], exprTree, doCommute).ok
            THEN NoMatch ELSE Matched(EmptyDict)
       ELSE IF ruleTok.type = "function" /\ ruleTok.name = "m_commute"
       THEN matchTree(ruleTree.args[1], exprTree, TRUE)
       ELSE IF isName(ruleTok, "m_nothing") THEN NoMatch
       ELSE IF ruleTok.type # "op" /\ ruleTok.type # exprTok.type THEN NoMatch
       ELSE CASE ruleTok.type = "number" ->
                   IF ruleTok.value = exprTok.value THEN Matched(EmptyDict) ELSE NoMatch
              [] ruleTok.type = "boolean" ->
                   IF ruleTok.value # exprTok.value THEN NoMatch ELSE Matched(EmptyDict)
              [] ruleTok.type \in {"function", "op"} ->
                   IF doCommute /\ ruleTok.name \in commutative
                   THEN matchTerms(getCommutingTerms(ruleTree, ruleTok.name, <<>>),
                                   getCommutingTerms(exprTree, ruleTok.name, <<>>),
                                   1, {}, EmptyDict,
                                   [op |-> ruleTok.name, doCommute |-> doCommute])
                   ELSE IF ruleTok.type # exprTok.type \/ ruleTok.name # NameOf(exprTok)
                   THEN NoMatch
                   ELSE matchArgs(ruleTree.args, exprTree.args, 1, doCommute, EmptyDict)
              [] ruleTok.type = "name" ->
                   IF toLowerCase(ruleTok.name) = toLowerCase(exprTok.name)
                   THEN Matched(EmptyDict) ELSE NoMatch
              [] OTHER -> Matched(EmptyDict)

(***************************************************************************)
(* Specification SpecMatch: matchTree with commuting enabled, on a pattern *)
(* and on the two orders a OP b and b OP a of an expression.               *)
(***************************************************************************)
CommutingOps == {"+", "*", "and", "or", "="}

Capture(pattern, name) == OpT(";", <<pattern, NameT(name)>>)

Anything == NameT("?")

\* the patterns P OP Q, none of them with a positional sub-form
Operands ==
    { Anything, NameT("x"), NameT("m_number"), Capture(Anything, "p"), Capture(NameT("x"), "p"),
      FnT("m_any", <<NameT("x"), NameT("y")>>), FnT("m_all", <<NameT("x")>>) }

Patterns(op) == {OpT(op, <<P, Q>>) : P \in Operands, Q \in Operands}

Subtrees == {NameT("x"), NameT("y"), NumT(1), OpT("+", <<NameT("x"), NameT("y")>>)}

InitMatch ==
    /\ \E op \in CommutingOps : \E pattern \in Patterns(op), a \in Subtrees, b \in Subtrees :
          run = [pc |-> "match", pattern |-> pattern, op |-> op, a |-> a, b |-> b,
                 m |-> EmptyDict]
    /\ scopes = BuiltinHeap
    /\ last = NoCall
    /\ funcObjAcc = LoadedFuncObjs
    /\ pool = {}
    /\ evaluations = 0

\* matchTree(pattern, a OP b, true), or with the operands the other way round
MatchTree(order) ==
    /\ run.pc = "match"
    /\ order \notin DOMAIN run.m
    /\ LET expr == IF order = "ab" THEN OpT(run.op, <<run.a, run.b>>)
                   ELSE OpT(run.op, <<run.b, run.a>>)
       IN run' = [run EXCEPT !.m = DictSet(@, order, matchTree(run.pattern, expr, TRUE))]
    /\ last' = [op |-> "matchTree", order |-> order]
    /\ UNCHANGED <<scopes, funcObjAcc, pool, evaluations>>

NextMatch == \E order \in {"ab", "ba"} : MatchTree(order)

SpecMatch == InitMatch /\ [][NextMatch]_vars

\* C15: with commuting enabled, a pattern over a commutative operation matches
\* a OP b exactly when it matches b OP a.
C15_CommutativeSymmetric ==
    (run.pc = "match" /\ DOMAIN run.m = {"ab", "ba"}) => run.m["ab"].ok = run.m["ba"].ok

(***************************************************************************)
(* Rules: a pattern, conditions and a result, all compiled trees.          *)
(***************************************************************************)
Rule(pattern, conditions, result) ==
    [tree |-> pattern, conditions |-> conditions, result |-> result]

Thrown(message) == [thrown |-> TRUE, message |-> message]

Returned(value) == [thrown |-> FALSE, value |-> value]

\* the variables of new jme.Scope([{variables: match}]): each capture goes
\* through setVariable, under the lower-case form of its name
matchVariables(match) ==
    [name \in {toLowerCase(n) : n \in DOMAIN match} |->
        match[CHOOSE n \in DOMAIN match : toLowerCase(n) = name]]

\* jme.substituteTree(tree, scope) with allowUnbound left out, on a scope that
\* has no parent: a name the scope does not hold is thrown
RECURSIVE substituteBound(_, _)
substituteBound(tree, variables) ==
    IF IsLeaf(tree)
    THEN IF tree.tok.type = "name"
         THEN LET name == toLowerCase(tree.tok.name)
              IN IF name \in DOMAIN variables THEN Returned(variables[name])
                 ELSE Thrown("jme.substituteTree.undefined variable")
         ELSE Returned(tree)
    ELSE LET special == tree.tok.type \in {"function", "op"} /\ tree.tok.name \in substituteTreeOps
             subs == [i \in 1..Len(tree.args) |->
                        IF special /\ i \notin SubstitutedArgs(tree.tok.name, Len(tree.args))
                        THEN Returned(tree.args[i])
                        ELSE substituteBound(tree.args[i], variables)]
         IN IF \E i \in 1..Len(tree.args) : subs[i].thrown
            THEN Thrown("jme.substituteTree.undefined variable")
            ELSE Returned([tree EXCEPT !.args = [i \in 1..Len(tree.args) |-> subs[i].value]])

\* result.value == false, with the coercion of ==
LooselyFalse(tok) ==
    \/ tok.type = "boolean" /\ tok.value = FALSE
    \/ tok.type = "number" /\ tok.value = 0

\* Rule.prototype.matchConditions from condition i on: the substitution is made
\* before the try block, the evaluation inside it
RECURSIVE matchConditions(_, _, _, _, _)
RECURSIVE conditionSubstituted(_, _, _, _, _, _)
RECURSIVE conditionEvaluated(_, _, _, _, _)

matchConditions(rule, i, match, s, st) ==
    IF i > Len(rule.conditions) THEN [outcome |-> "match", st |-> st]
    ELSE conditionSubstituted(rule, i, match, s, st,
            substituteBound(rule.conditions[i], matchVariables(match)))

\* c = jme.substituteTree(c, new jme.Scope([{variables: match}])), then the try
conditionSubstituted(rule, i, match, s, st, c) ==
    IF c.thrown THEN [outcome |-> "raised", st |-> st]
    ELSE conditionEvaluated(rule, i, match, s, evaluate(c.value, s, st))

\* the body of the try block once jme.evaluate has returned or thrown
conditionEvaluated(rule, i, match, s, result) ==
    IF Failed(result) \/ LooselyFalse(result.tok)
    THEN [outcome |-> "no match", st |-> result.st]
    ELSE matchConditions(rule, i + 1, match, s, result.st)

\* Rule.prototype.match once matchTree has returned
matched(rule, match, s, st) ==
    IF ~match.ok THEN [outcome |-> "no match", d |-> EmptyDict, st |-> st]
    ELSE [d |-> match.d] @@ matchConditions(rule, 1, match.d, s, st)

\* Rule.prototype.match: matchTree is called without doCommute
RuleMatch(rule, exprTree, s, st) == matched(rule, matchTree(rule.tree, exprTree, FALSE), s, st)

(***************************************************************************)
(* Specification SpecRule: Rule.match of one rule on one expression,       *)
(* against the built-in scope.                                             *)
(***************************************************************************)
RulePatterns ==
    { Capture(Anything, "x"), Capture(NameT("m_number"), "n"),
      FnT("m_any", <<Capture(NameT("m_number"), "n"), Capture(Anything, "x")>>),
      OpT("+", <<Capture(Anything, "x"), Capture(Anything, "y")>>) }

Below2(name) == OpT("<", <<NameT(name), NumT(2)>>)

RuleConditions ==
    { <<>>, <<Below2("n")>>, <<Below2("x")>>, <<Below2("x"), Below2("n")>>,
      <<BoolT(TRUE)>>, <<BoolT(FALSE)>>, <<NameT("y")>> }

RuleExprs ==
    { NumT(1), NumT(2), NameT("x"), NameT("y"),
      OpT("+", <<NumT(1), NumT(2)>>), OpT("+", <<NameT("x"), NumT(1)>>) }

InitRule ==
    /\ \E pattern \in RulePatterns, conditions \in RuleConditions, expr \in RuleExprs :
          run = [pc |-> "rule", rule |-> Rule(pattern, conditions, NameT("x")),
                 expr |-> expr, outcome |-> "none"]
    /\ scopes = BuiltinHeap
    /\ last = NoCall
    /\ funcObjAcc = LoadedFuncObjs
    /\ pool = {}
    /\ evaluations = 0

Tried(r) ==
    /\ run' = [run EXCEPT !.outcome = r.outcome]
    /\ scopes' = r.st.h

\* rule.match(expr, jme.builtinScope)
Match ==
    /\ run.pc = "rule"
    /\ run.outcome = "none"
    /\ Tried(RuleMatch(run.rule, run.expr, 1, NewEvaluation(scopes)))
    /\ last' = [op |-> "match"]
    /\ UNCHANGED <<funcObjAcc, pool, evaluations>>

NextRule == Match

SpecRule == InitRule /\ [][NextRule]_vars

\* C14: Rule.match never raises because of a condition: whatever fails while a
\* condition is substituted into or evaluated, the outcome is "no match".
C14_ConditionNeverRaises ==
    (run.pc = "rule" /\ run.rule.conditions # <<>>) => run.outcome # "raised"

(***************************************************************************)
(* jme.display.treeToJME.  A string is modelled by the sequence of pieces  *)
(* it is joined from: [s |-> text] for text, [n |-> value] for the digits  *)
(* of a number.                                                            *)
(***************************************************************************)
Text(s) == <<[s |-> s]>>

\* opBrackets[op][i]: the operations that get brackets as argument i of op
opBrackets(op, i) ==
    CASE op = "-u" -> {"+", "-"}
      [] op = "-" -> IF i = 2 THEN {"+", "-"} ELSE {}
      [] op = "*" -> {"+u", "-u", "+", "-", "/"}
      [] op = "/" -> {"+u", "-u", "+", "-", "*"}
      [] op = "^" -> {"+u", "-u", "+", "-", "*", "/"}
      [] op = "and" -> {"or", "xor"}
      [] op = "or" -> {"xor"}
      [] OTHER -> {}

bracketed(tree, i) ==
    tree.args[i].tok.type = "op" /\ tree.args[i].tok.name \in opBrackets(tree.tok.name, i)

\* the text an operation is written with between (or before) its arguments
opText(tree) ==
    LET op == tree.tok.name
    IN CASE op = "*" /\ (tree.args[1].tok.type = "number" \/ bracketed(tree, 1))
                     /\ (tree.args[2].tok.type = "name"
                         \/ (bracketed(tree, 2) /\ ~isOp(tree.args[2].tok, "-u"))) -> <<>>
         [] op = "+u" -> Text("+")
         [] op = "-u" -> Text("-")
         [] op = "-" -> Text(" - ")
         [] op \in {"and", "or", "isa", "except", "+", "in"} -> Text(" ") \o Text(op) \o Text(" ")
         [] op = "not" -> Text("not ")
         [] OTHER -> Text(op)

\* bits.join(separator)
RECURSIVE join(_, _)
join(bits, separator) ==
    IF bits = <<>> THEN <<>>
    ELSE IF Len(bits) = 1 THEN bits[1]
    ELSE bits[1] \o Text(separator) \o join(Tail(bits), separator)

RECURSIVE treeToJME(_)
treeToJME(tree) ==
    LET tok == tree.tok
        bits == IF ~IsLeaf(tree) THEN [i \in 1..Len(tree.args) |-> treeToJME(tree.args[i])]
                ELSE IF tok.type = "list" /\ "value" \in DOMAIN tok
                THEN [i \in 1..Len(tok.value) |-> treeToJME([tok |-> tok.value[i]])]
                ELSE <<>>
        bit(i) == IF bracketed(tree, i) THEN Text("(") \o bits[i] \o Text(")") ELSE bits[i]
    IN CASE tok.type = "number" -> <<[n |-> tok.value]>>
         [] tok.type = "name" -> Text(tok.name)
         [] tok.type = "boolean" -> IF tok.value THEN Text("true") ELSE Text("false")
         [] tok.type = "function" -> Text(tok.name) \o Text("(") \o join(bits, ",") \o Text(")")
         [] tok.type = "list" -> Text("[ ") \o join(bits, ", ") \o Text(" ]")
         [] tok.type = "op" ->
              IF Len(tree.args) = 1 THEN opText(tree) \o bit(1)
              ELSE bit(1) \o opText(tree) \o bit(2)
         [] OTHER -> <<[t |-> tok]>>

(***************************************************************************)
(* jme.display.simplifyTree.  Each call is an activation on run.stack: the *)
(* argument it simplifies next, its counter depth and its list seen.  The  *)
(* calls work on one tree object, run.tree: the tree of a call is args[i]  *)
(* of the tree of the call above it.  The scope is the built-in scope,     *)
(* which has no variable.                                                  *)
(***************************************************************************)
loopThreshold == 100

MaxBeyond == 3

Call == [i |-> 1, depth |-> 0, seen |-> <<>>]

\* Numbas.util.copyobj(scope): a new object with the properties of the scope
copyobj(h, s) == [h |-> Append(h, h[s]), scope |-> Len(h) + 1]

\* scope = Numbas.util.copyobj(scope); scope.variables = {}, as simplifyTree
\* begins.  The calls it makes on the arguments copy that copy: each of those
\* has the same parent, functions and empty variables, and stands for them.
ownScope(h, s) ==
    LET c == copyobj(h, s)
    IN [h |-> [c.h EXCEPT ![c.scope].variables = EmptyDict], scope |-> c.scope]

\* the copy holds the _resolved_functions object of the scope it was made of
shared(h) == [h EXCEPT ![run.caller].resolved = h[run.scope].resolved]

Current == run.stack[Len(run.stack)]

\* the argument positions that lead from the outermost tree to the current one
Path == [k \in 1..(Len(run.stack) - 1) |-> run.stack[k].i]

RECURSIVE subtree(_, _)
subtree(tree, path) ==
    IF path = <<>> THEN tree ELSE subtree(tree.args[Head(path)], Tail(path))

RECURSIVE assigned(_, _, _)
assigned(tree, path, sub) ==
    IF path = <<>> THEN sub
    ELSE [tree EXCEPT !.args[Head(path)] = assigned(@, Tail(path), sub)]

exprTree == subtree(run.tree, Path)

Simplifying == run.pc \in {"simplify", "resimplify"}

isEval(tree) == tree.tok.type = "function" /\ tree.tok.name = "eval"

\* the arguments taken as simplified without a call
ArgsDoneMutSkipped == TRUE

\* the loop over exprTree.args has run to its end (or there is no args)
ArgsDone == IF IsLeaf(exprTree) THEN TRUE ELSE Current.i > Len(exprTree.args)

\* the loop over the rules: the first rule whose match is not false
RECURSIVE firstMatch(_, _, _, _, _)
RECURSIVE ruleTried(_, _, _, _, _)

firstMatch(rules, i, tree, s, st) ==
    IF i > Len(rules) THEN [outcome |-> "no match", i |-> 0, d |-> EmptyDict, st |-> st]
    ELSE ruleTried(rules, i, tree, s, RuleMatch(rules[i], tree, s, st))

\* match = rules[i].match(exprTree, scope) has returned or thrown
ruleTried(rules, i, tree, s, m) ==
    IF m.outcome = "no match" THEN firstMatch(rules, i + 1, tree, s, m.st)
    ELSE [i |-> i] @@ m

\* a step that only changes run and the heap
Step(newRun, h) ==
    /\ run' = newRun
    /\ scopes' = h
    /\ UNCHANGED <<funcObjAcc, pool, evaluations>>

\* the current call goes round its loop again, on a new tree
Restart(tree, depth, seen) ==
    [run EXCEPT !.tree = assigned(run.tree, Path, tree),
                !.stack[Len(run.stack)] = [i |-> 1, depth |-> depth, seen |-> seen]]

\* exprTree = {tok: Numbas.jme.evaluate(exprTree.args[0], scope)}
Evaluated1(r) ==
    IF Failed(r)
    THEN Step([run EXCEPT !.pc = "thrown"], shared(r.st.h))
    ELSE Step(Restart([tok |-> r.tok], Current.depth, Current.seen), shared(r.st.h))

Eval ==
    /\ Simplifying
    /\ isEval(exprTree)
    /\ Evaluated1(evaluate(exprTree.args[1], run.scope, NewEvaluation(scopes)))
    /\ last' = [op |-> "eval", tree |-> exprTree.args[1], pre |-> scopes]

\* the call simplifyTree(exprTree.args[i], ruleset, scope) is entered
SimplifyArg ==
    /\ Simplifying
    /\ ~isEval(exprTree)
    /\ ~ArgsDone
    /\ Step([run EXCEPT !.stack = Append(@, Call)], shared(scopes))
    /\ last' = [op |-> "simplifyArg"]

\* a rule matches: the tree becomes the rule's result with the captures put in
ApplyRule(found) ==
    /\ Current.depth < loopThreshold + MaxBeyond
    /\ LET result == substituteBound(run.rules[found.i].result, matchVariables(found.d))
           depth == Current.depth + 1
           str == treeToJME(result.value)
       IN IF found.outcome = "raised" \/ result.thrown
          THEN Step([run EXCEPT !.pc = "thrown"], shared(found.st.h))
          ELSE IF depth > loopThreshold /\ \E k \in 1..Len(Current.seen) : Current.seen[k] = str
          THEN Step([run EXCEPT !.pc = "raised", !.applications = @ + 1], shared(found.st.h))
          ELSE Step([Restart(result.value, depth,
                             IF depth > loopThreshold THEN Append(Current.seen, str)
                             ELSE Current.seen)
                        EXCEPT !.applications = @ + 1],
                    shared(found.st.h))
    /\ last' = [op |-> "applyRule"]

\* no rule matches: the call returns its tree, which becomes args[i] of the
\* tree of the call above
ReturnTree(found) ==
    /\ LET n == Len(run.stack)
       IN IF n = 1
          THEN Step([run EXCEPT !.pc = IF run.pc = "simplify" THEN "returned" ELSE "done",
                                !.stack = <<>>, !.out = run.tree], shared(found.st.h))
          ELSE Step([run EXCEPT !.stack =
                        [SubSeq(run.stack, 1, n - 1) EXCEPT ![n - 1].i = @ + 1]], shared(found.st.h))
    /\ last' = [op |-> "return"]

Scanned(found) == IF found.outcome = "no match" THEN ReturnTree(found) ELSE ApplyRule(found)

\* the arguments are simplified: the rules are tried on the tree, in order
ScanRules ==
    /\ Simplifying
    /\ ~isEval(exprTree)
    /\ ArgsDone
    /\ Scanned(firstMatch(run.rules, 1, exprTree, run.scope, NewEvaluation(scopes)))

\* simplifyTree is called again, on the tree it returned
Resimplify ==
    /\ run.pc = "returned"
    /\ Step([run EXCEPT !.pc = "resimplify", !.stack = <<Call>>, !.tree = run.out,
                        !.first = [out |-> run.out, applications |-> run.applications],
                        !.applications = 0, !.pass = 2], shared(scopes))
    /\ last' = [op |-> "simplifyTree"]

(***************************************************************************)
(* Specification SpecSimplify: simplifyTree on a tree with a ruleset of    *)
(* one or two rules, then once more on what it returned.                   *)
(***************************************************************************)
Number(name) == Capture(NameT("m_number"), name)

SimplifyRules ==
    { Rule(OpT("+", <<Number("a"), Number("b")>>), <<>>,
           FnT("eval", <<OpT("+", <<NameT("a"), NameT("b")>>)>>)),
      Rule(OpT("+", <<Capture(Anything, "x"), NumT(0)>>), <<>>, NameT("x")),
      Rule(Number("n"), <<Below2("n")>>, FnT("eval", <<OpT("+", <<NameT("n"), NumT(1)>>)>>)),
      Rule(NumT(1), <<>>, NumT(2)),
      Rule(NumT(2), <<>>, NumT(1)),
      Rule(OpT("+", <<Capture(Anything, "x"), Capture(Anything, "y")>>), <<>>,
           OpT("+", <<NameT("y"), NameT("x")>>)),
      Rule(FnT("f", <<Capture(Anything, "l")>>), <<>>,
           FnT("f", <<FnT("eval", <<OpT("+", <<NameT("l"), NumT(0)>>)>>)>>)),
      Rule(Capture(NameT("x"), "v"), <<NameT("w")>>, NameT("v")) }

Rulesets == {<<r>> : r \in SimplifyRules} \cup {<<r, q>> : r \in SimplifyRules, q \in SimplifyRules}

SimplifyTrees ==
    { NumT(1), NameT("x"), OpT("+", <<NumT(1), NumT(1)>>),
      OpT("+", <<OpT("+", <<NumT(0), NumT(1)>>), NumT(0)>>),
      FnT("f", <<OpT("+", <<NumT(1), NumT(0)>>)>>),
      FnT("f", <<ListT(<<>>)>>),
      OpT("+", <<NameT("y"), NumT(0)>>) }

\* simplifyTree(tree, {rules: rules}, scope) past the copy of its scope
Simplify(rules, tree, h, s) ==
    [pc |-> "simplify", rules |-> rules, input |-> tree, tree |-> tree,
     stack |-> <<Call>>, out |-> tree, applications |-> 0, pass |-> 1,
     first |-> [out |-> tree, applications |-> 0],
     caller |-> s, scope |-> ownScope(h, s).scope, given |-> h]

InitSimplify ==
    /\ \E rules \in Rulesets, tree \in SimplifyTrees :
          run = Simplify(rules, tree, BuiltinHeap, 1)
    /\ scopes = ownScope(BuiltinHeap, 1).h
    /\ last = NoCall
    /\ funcObjAcc = LoadedFuncObjs
    /\ pool = {}
    /\ evaluations = 0

NextSimplify == Eval \/ SimplifyArg \/ ScanRules \/ Resimplify

SpecSimplify == InitSimplify /\ [][NextSimplify]_vars

RECURSIVE subtrees(_)
subtrees(tree) ==
    {tree} \cup (IF IsLeaf(tree) THEN {}
                 ELSE UNION {subtrees(tree.args[i]) : i \in 1..Len(tree.args)})

\* a rule of the ruleset matches the tree or one of its subtrees
Reducible(tree) ==
    \E sub \in subtrees(tree) : \E k \in 1..Len(run.rules) :
        RuleMatch(run.rules[k], sub, run.scope, NewEvaluation(scopes)).outcome # "no match"

\* C12: simplifyTree called again on the tree it returned, with the same
\* ruleset and scope, applies no rule and returns the same tree, and no rule of
\* the ruleset matches the returned tree or any subtree of it.
C12_Idempotent ==
    /\ run.pass = 2 => run.applications = 0 /\ run.pc \in {"resimplify", "done"}
    /\ run.pc = "done" => run.out = run.first.out
    /\ run.pc \in {"returned", "resimplify", "done"} => ~Reducible(run.out)

\* the first call rewrote below the root, and the second call has returned
C12_Witness ==
    /\ run.pc = "done"
    /\ run.first.applications > 0
    /\ ~IsLeaf(run.input)
    /\ run.input.tok = run.out.tok
    /\ run.input # run.out

\* C13: simplifyTree never runs forever: a call reaches a tree no rule matches,
\* or raises the error 'stuck in a loop'.  The rulesets here that come back to
\* a tree do so within two rule applications, so a call that is still in its
\* loop after loopThreshold + MaxBeyond applications is one the guard has let
\* through.
C13_StuckOrFixed ==
    \A k \in 1..Len(run.stack) :
        run.pc = "simplify" => run.stack[k].depth < loopThreshold + MaxBeyond

(***************************************************************************)
(* Rulesets.  A Rule object is told from another by ref; its three strings *)
(* are what it was compiled from.  A string of set names is modelled by    *)
(* the array it splits into, and an entry of it by what the regular        *)
(* expression of collectRuleset takes from it: the "!" and the name.       *)
(***************************************************************************)
Written(pattern, conditions, result) ==
    [pattern |-> pattern, conditions |-> conditions, result |-> result]

\* new Rule(pattern, conditions, result), as object number ref
RuleObject(ref, written) ==
    [ref |-> ref, patternString |-> written.pattern,
     conditionStrings |-> written.conditions, resultString |-> written.result]

Ruleset(rules, flags) == [rules |-> rules, flags |-> flags]

displayFlags == {"fractionnumbers", "rowvector"}

\* five of the sets of simplificationRules, in the order of the table
simplificationNames ==
    <<"unitPower", "zeroPower", "collectNumbers", "zeroBase", "constantsFirst">>

simplificationRules(name) ==
    CASE name = "unitPower" -> <<Written("?;x^1", <<>>, "x")>>
      [] name = "zeroPower" -> <<Written("?;x^0", <<>>, "1")>>
      [] name = "zeroBase" -> <<Written("0^?;x", <<>>, "0")>>
      [] name = "constantsFirst" ->
           << Written("?;x*?;n", <<"n isa \"number\"", "!(x isa \"number\")", "n<>i">>, "n*x"),
              Written("?;x*(?;n*?;y)",
                      <<"n isa \"number\"", "n<>i", "!(x isa \"number\")">>, "n*(x*y)") >>
      [] name = "collectNumbers" ->
           << Written("-?;x-?;y", <<"x isa \"number\"", "y isa \"number\"">>, "-(x+y)"),
              Written("?;n+?;m", <<"n isa \"number\"", "m isa \"number\"">>, "eval(n+m)"),
              Written("?;n-?;m", <<"n isa \"number\"", "m isa \"number\"">>, "eval(n-m)"),
              Written("?;n+?;x", <<"n isa \"number\"", "!(x isa \"number\")">>, "x+n"),
              Written("(?;x+?;n)+?;m", <<"n isa \"number\"", "m isa \"number\"">>, "x+eval(n+m)"),
              Written("(?;x-?;n)+?;m", <<"n isa \"number\"", "m isa \"number\"">>, "x+eval(m-n)"),
              Written("(?;x+?;n)-?;m", <<"n isa \"number\"", "m isa \"number\"">>, "x+eval(n-m)"),
              Written("(?;x-?;n)-?;m", <<"n isa \"number\"", "m isa \"number\"">>, "x-eval(n+m)"),
              Written("(?;x+?;n)+?;y", <<"n isa \"number\"">>, "(x+y)+n"),
              Written("(?;x+?;n)-?;y", <<"n isa \"number\"">>, "(x-y)+n"),
              Written("(?;x-?;n)+?;y", <<"n isa \"number\"">>, "(x+y)-n"),
              Written("(?;x-?;n)-?;y", <<"n isa \"number\"">>, "(x-y)-n"),
              Written("?;n*?;m", <<"n isa \"number\"", "m isa \"number\"">>, "eval(n*m)"),
              Written("?;x*?;n", <<"n isa \"number\"", "!(x isa \"number\")", "n<>i">>, "n*x"),
              Written("?;m*(?;n*?;x)", <<"m isa \"number\"", "n isa \"number\"">>, "eval(n*m)*x") >>

\* compileRules(rules), the objects numbered from acc + 1
compileRules(rules, acc) ==
    Ruleset([i \in 1..Len(rules) |-> RuleObject(acc + i, rules[i])], EmptyDict)

\* the number of Rule objects made before set number k of the table is compiled
RECURSIVE compiledBefore(_)
compiledBefore(k) ==
    IF k = 1 THEN 0
    ELSE compiledBefore(k - 1) + Len(simplificationRules(simplificationNames[k - 1]))

compiledSet(k) == compileRules(simplificationRules(simplificationNames[k]), compiledBefore(k))

RECURSIVE concatRules(_)
concatRules(k) == IF k = 0 THEN <<>> ELSE concatRules(k - 1) \o compiledSet(k).rules

\* compiledSimplificationRules: each set under its name and under the lower-case
\* form of its name, and the set 'all'
compiledSimplificationRules ==
    [name \in {simplificationNames[k] : k \in DOMAIN simplificationNames}
              \cup {toLowerCase(simplificationNames[k]) : k \in DOMAIN simplificationNames}
              \cup {"all"} |->
        IF name = "all" THEN Ruleset(concatRules(Len(simplificationNames)), EmptyDict)
        ELSE compiledSet(CHOOSE k \in DOMAIN simplificationNames :
                            name \in {simplificationNames[k], toLowerCase(simplificationNames[k])})]

Named(neg, name) == [neg |-> neg, name |-> name]

Array(items) == [items |-> items]

\* rules.splice(rules.indexOf(rule), 1) when the rule is in the list
spliced(rules, rule) ==
    IF \A k \in 1..Len(rules) : rules[k] # rule THEN rules
    ELSE LET m == CHOOSE k \in 1..Len(rules) :
                     rules[k] = rule /\ \A j \in 1..(k - 1) : rules[j] # rule
         IN SubSeq(rules, 1, m - 1) \o SubSeq(rules, m + 1, Len(rules))

RECURSIVE excluded(_, _)
excluded(rules, sub) ==
    IF sub = <<>> THEN rules ELSE excluded(spliced(rules, Head(sub)), Tail(sub))

\* rules.push(rule) unless rules.contains(rule), for each rule of sub
RECURSIVE included(_, _)
included(rules, sub) ==
    IF sub = <<>> THEN rules
    ELSE included(IF \E k \in 1..Len(rules) : rules[k] = Head(sub) THEN rules
                  ELSE Append(rules, Head(sub)), Tail(sub))

extend(flags, more) ==
    [n \in (DOMAIN flags) \cup (DOMAIN more) |-> IF n \in DOMAIN more THEN more[n] ELSE flags[n]]

NotDefined == [thrown |-> TRUE, message |-> "jme.display.collectRuleset.set not defined"]

RECURSIVE collectRuleset(_, _)
RECURSIVE collectItems(_, _, _, _, _)
RECURSIVE collectSub(_, _, _, _, _, _)

\* jme.rules.collectRuleset(set, scopeSets).  The entry scopeSets[name] = sub
\* is made in the call's own copy of scopeSets and is not modelled.
collectRuleset(set, scopeSets) ==
    IF "rules" \in DOMAIN set
    THEN collectItems(set.rules, 1, scopeSets, <<>>, set.flags)
    ELSE collectItems(set.items, 1, scopeSets, <<>>, EmptyDict)

\* the loop over set, from entry i on
collectItems(set, i, scopeSets, rules, flags) ==
    IF i > Len(set) THEN Ruleset(rules, flags)
    ELSE IF "ref" \in DOMAIN set[i]
    THEN collectItems(set, i + 1, scopeSets, Append(rules, set[i]), flags)
    ELSE LET name == toLowerCase(set[i].name)
         IN IF name \in displayFlags
            THEN collectItems(set, i + 1, scopeSets, rules, DictSet(flags, name, ~set[i].neg))
            ELSE IF name = "" THEN collectItems(set, i + 1, scopeSets, rules, flags)
            ELSE IF name \notin DOMAIN scopeSets THEN NotDefined
            ELSE collectSub(set, i, scopeSets, rules, flags,
                            collectRuleset(scopeSets[name], scopeSets))

\* sub = collectRuleset(scopeSets[name], scopeSets) has returned or thrown
collectSub(set, i, scopeSets, rules, flags, sub) ==
    IF "thrown" \in DOMAIN sub THEN sub
    ELSE collectItems(set, i + 1, scopeSets,
                      IF set[i].neg THEN excluded(rules, sub.rules) ELSE included(rules, sub.rules),
                      extend(flags, sub.flags))

(***************************************************************************)
(* Specification SpecRuleset: collectRuleset and compileRules called on    *)
(* the rulesets of a scope: the built-in ones and one the scope defines by *)
(* reference to two of them.                                               *)
(***************************************************************************)
MaxItems == 2

ScopeSets ==
    compiledSimplificationRules
        @@ [name \in {"mine"} |-> Array(<<Named(FALSE, "zeroPower"), Named(FALSE, "collectNumbers")>>)]

SetItems ==
    { Named(FALSE, "unitPower"), Named(FALSE, "zeropower"), Named(FALSE, "collectNumbers"),
      Named(FALSE, "constantsfirst"), Named(FALSE, "all"), Named(FALSE, "mine"),
      Named(TRUE, "constantsFirst"), Named(TRUE, "collectnumbers"), Named(FALSE, "fractionnumbers"),
      Named(FALSE, "nosuch"), compiledSimplificationRules["zerobase"].rules[1] }

WrittenRules == {simplificationRules("unitPower")[1], simplificationRules("zeroBase")[1]}

SeqsOf(S) == UNION {[1..n -> S] : n \in 1..MaxItems}

InitRuleset ==
    /\ run = [pc |-> "rulesets", sets |-> ScopeSets, made |-> Ruleset(<<>>, EmptyDict),
              rules |-> Len(compiledSimplificationRules["all"].rules)]
    /\ scopes = BuiltinHeap
    /\ last = NoCall
    /\ funcObjAcc = LoadedFuncObjs
    /\ pool = {}
    /\ evaluations = 0

\* jme.collectRuleset(set, scope.allRulesets())
CollectRuleset(set) ==
    /\ run.pc = "rulesets"
    /\ run' = [run EXCEPT !.made = collectRuleset(Array(set), run.sets)]
    /\ last' = [op |-> "collectRuleset", set |-> set]
    /\ UNCHANGED <<scopes, funcObjAcc, pool, evaluations>>

\* jme.rules.compileRules(rules)
CompileRules(rules) ==
    /\ run.pc = "rulesets"
    /\ run' = [run EXCEPT !.made = compileRules(rules, run.rules)]
    /\ last' = [op |-> "compileRules", rules |-> rules]
    /\ UNCHANGED <<scopes, funcObjAcc, pool, evaluations>>

NextRuleset ==
    \/ \E set \in SeqsOf(SetItems) : CollectRuleset(set)
    \/ \E rules \in SeqsOf(WrittenRules) : CompileRules(rules)

SpecRuleset == InitRuleset /\ [][NextRuleset]_vars

SameRule(r, q) ==
    /\ r.patternString = q.patternString
    /\ r.conditionStrings = q.conditionStrings
    /\ r.resultString = q.resultString

DuplicateFree(rules) ==
    \A i \in 1..Len(rules), j \in 1..Len(rules) : i # j => ~SameRule(rules[i], rules[j])

\* C16: no Ruleset that compileRules or collectRuleset makes, nor the built-in
\* set 'all', holds two rules with the same pattern, conditions and result.
C16_DuplicateFree ==
    run.pc = "rulesets" =>
        /\ "rules" \in DOMAIN run.made => DuplicateFree(run.made.rules)
        /\ DuplicateFree(run.sets["all"].rules)

\* ---------------------------------------------------------------------------
\* The tokeniser: jme.tokenise.  The expression is given as the sequence of
\* lexemes its regular expressions recognise in turn (whitespace and comments
\* already stripped), each with the kind of the regular expression that
\* matches it and its text.

Lexeme(kind, text) == [kind |-> kind, text |-> text]

arity == [op \in {"!", "not", "fact", "+u", "-u"} |-> 1]

TOp(op, postfix, prefix) ==
    [type |-> "op", name |-> op, postfix |-> postfix, prefix |-> prefix,
     vars |-> IF op \in DOMAIN arity THEN arity[op] ELSE 2]

TPunc(kind) == [type |-> kind]

TString(s) == [type |-> "string", value |-> s]

TKeyPair(key) == [type |-> "keypair", key |-> key, vars |-> 1]

TFunc(name, n) == [type |-> "function", name |-> name, vars |-> n]

prefixForm == [op \in {"+", "-", "!"} |->
    CASE op = "+" -> "+u" [] op = "-" -> "-u" [] op = "!" -> "not"]

postfixForm == [op \in {"!"} |-> "fact"]

opSynonyms == [op \in {"&", "&&", "divides", "||"} |->
    CASE op = "&" -> "and" [] op = "&&" -> "and" [] op = "divides" -> "|" [] op = "||" -> "or"]

\* jme.constants: the names the tokeniser replaces by numbers.  The value of
\* a constant is kept symbolic.
constants == {"e", "pi", "i", "infinity", "infty"}

Constant(name) == [constant |-> name]

parseFloat(text) == CASE text = "1" -> 1 [] text = "2" -> 2 [] text = "3" -> 3

parseBool(text) == text \in {"true", "yes"}

lastType(tokens) == IF tokens = <<>> THEN "none" ELSE tokens[Len(tokens)].type

timesMutNever(tokens, types) == tokens

\* tokens.push(new TOp('*')) when the last token has one of the types.
times(tokens, types) ==
    IF lastType(tokens) \in types THEN Append(tokens, TOp("*", FALSE, FALSE)) ELSE tokens

opToken(tokens, token) ==
    IF \/ tokens = <<>>
       \/ lastType(tokens) \in {"(", ",", "[", "keypair"}
       \/ (lastType(tokens) = "op" /\ ~tokens[Len(tokens)].postfix)
    THEN IF token \in DOMAIN prefixForm THEN TOp(prefixForm[token], FALSE, TRUE)
                                        ELSE TOp(token, FALSE, FALSE)
    ELSE IF token \in DOMAIN postfixForm THEN TOp(postfixForm[token], TRUE, FALSE)
                                         ELSE TOp(token, FALSE, FALSE)

nameToken(name) ==
    IF toLowerCase(name) \in constants THEN TNum(Constant(toLowerCase(name))) ELSE TName(name)

\* One turn of the while loop: the tokens after the lexeme has been read.
tokeniseLexeme(tokens, lexeme) ==
    CASE lexeme.kind = "number" ->
            Returned(Append(times(tokens, {")", "name"}), TNum(parseFloat(lexeme.text))))
      [] lexeme.kind = "bool" ->
            Returned(Append(tokens, TBool(parseBool(lexeme.text))))
      [] lexeme.kind = "op" ->
            Returned(Append(tokens, opToken(tokens,
                IF lexeme.text \in DOMAIN opSynonyms THEN opSynonyms[lexeme.text]
                                                     ELSE lexeme.text)))
      [] lexeme.kind = "name" ->
            Returned(Append(times(tokens, {"number", "name", ")"}), nameToken(lexeme.text)))
      [] lexeme.kind = "punctuation" ->
            Returned(Append(IF lexeme.text = "(" THEN times(tokens, {"number", ")"}) ELSE tokens,
                            TPunc(lexeme.text)))
      [] lexeme.kind = "string" ->
            Returned(Append(tokens, TString(lexeme.text)))
      [] lexeme.kind = "keypair" ->
            IF lastType(tokens) # "string"
            THEN Thrown("jme.tokenise.keypair key not a string")
            ELSE Returned(Append(SubSeq(tokens, 1, Len(tokens) - 1),
                                 TKeyPair(tokens[Len(tokens)].value)))

RECURSIVE tokeniseFrom(_, _, _)
tokeniseNext(lexemes, i, r) ==
    IF r.thrown THEN r ELSE tokeniseFrom(lexemes, i + 1, r.value)

tokeniseFrom(lexemes, i, tokens) ==
    IF i > Len(lexemes) THEN Returned(tokens)
    ELSE tokeniseNext(lexemes, i, tokeniseLexeme(tokens, lexemes[i]))

tokenise(lexemes) == tokeniseFrom(lexemes, 1, <<>>)

\* ---------------------------------------------------------------------------
\* The parser: jme.shunt, the shunting-yard algorithm over the tokens.

\* The precedence table, every entry doubled so that 2.5 and 6.5 are integers.
precedence == [op \in {";", "fact", "not", "+u", "-u", "^", "*", "/", "+", "-", "|", "..",
                       "#", "except", "in", "<", ">", "<=", ">=", "<>", "=", "isa",
                       "and", "or", "xor", "implies", ":"} |->
    CASE op = ";" -> 0
      [] op \in {"fact", "not"} -> 2
      [] op \in {"+u", "-u"} -> 5
      [] op = "^" -> 4
      [] op \in {"*", "/"} -> 6
      [] op \in {"+", "-"} -> 8
      [] op \in {"|", ".."} -> 10
      [] op = "#" -> 12
      [] op \in {"except", "in"} -> 13
      [] op \in {"<", ">", "<=", ">="} -> 14
      [] op \in {"<>", "="} -> 16
      [] op = "isa" -> 18
      [] op = "and" -> 22
      [] op = "or" -> 24
      [] op = "xor" -> 26
      [] op = "implies" -> 28
      [] op = ":" -> 200]

funcSynonyms == [name \in {"sqr", "gcf", "sgn", "len", "length", "verb"} |->
    CASE name = "sqr" -> "sqrt" [] name = "gcf" -> "gcd" [] name = "sgn" -> "sign"
      [] name = "len" -> "abs" [] name = "length" -> "abs" [] name = "verb" -> "verbatim"]

rightAssociative == {"^", "+u", "-u"}

leftAssociativeMutAll(op) == TRUE

leftAssociative(op) == op \notin rightAssociative

TListVars(n) == [type |-> "list", vars |-> n]

TDict == [type |-> "dict", vars |-> 0]

Shunting == [output |-> <<>>, stack |-> <<>>, numvars |-> <<>>, olength |-> <<>>,
             listmode |-> <<>>]

Last(seq) == seq[Len(seq)]

Front(seq) == SubSeq(seq, 1, Len(seq) - 1)

argmode(arg) == IF arg.tok.type = "keypair" THEN "dictionary" ELSE "list"

thing(tok, args) ==
    IF tok.type # "list" THEN Returned([tok |-> tok, args |-> args])
    ELSE IF \E k \in 2..Len(args) : argmode(args[k]) # argmode(args[k - 1])
    THEN Thrown("jme.shunt.list mixed argument types")
    ELSE IF args # <<>> /\ argmode(args[1]) = "dictionary"
    THEN Returned([tok |-> TDict, args |-> args])
    ELSE Returned([tok |-> tok, args |-> args])

pushed(output, r) == IF r.thrown THEN r ELSE Returned(Append(output, r.value))

addoutput(output, tok) ==
    IF "vars" \notin DOMAIN tok THEN Returned(Append(output, [tok |-> tok]))
    ELSE IF Len(output) < tok.vars THEN Thrown("jme.shunt.not enough arguments")
    ELSE pushed(SubSeq(output, 1, Len(output) - tok.vars),
                thing(tok, SubSeq(output, Len(output) - tok.vars + 1, Len(output))))

\* addoutput(stack.pop())
popped(st, r) ==
    IF r.thrown THEN r
    ELSE Returned([st EXCEPT !.output = r.value, !.stack = Front(st.stack)])

RECURSIVE popUntil(_, _)
popMore(r, stops) == IF r.thrown THEN r ELSE popUntil(r.value, stops)

\* while(stack.length && stack[stack.length-1].type != ...) addoutput(stack.pop())
popUntil(st, stops) ==
    IF st.stack = <<>> THEN Returned(st)
    ELSE IF Last(st.stack).type \in stops THEN Returned(st)
    ELSE popMore(popped(st, addoutput(st.output, Last(st.stack))), stops)

RECURSIVE popOps(_, _)
popMoreOps(r, tok) == IF r.thrown THEN r ELSE popOps(r.value, tok)

\* The loop of case "op": operators on the stack that are calculated before
\* this one go to the output.
popOps(st, tok) ==
    IF st.stack = <<>> THEN Returned(st)
    ELSE IF Last(st.stack).type # "op" THEN Returned(st)
    ELSE IF \/ precedence[tok.name] > precedence[Last(st.stack).name]
            \/ (leftAssociative(tok.name)
                /\ precedence[tok.name] = precedence[Last(st.stack).name])
    THEN popMoreOps(popped(st, addoutput(st.output, Last(st.stack))), tok)
    ELSE Returned(st)

push(st, tok) == [st EXCEPT !.stack = Append(@, tok)]

\* numvars.push(0); olength.push(output.length)
opened(st) == [st EXCEPT !.numvars = Append(@, 0), !.olength = Append(@, Len(st.output))]

\* var n = numvars.pop(); var l = olength.pop(); if(output.length>l) n++
counted(st) ==
    (IF st.numvars = <<>> THEN 0 ELSE Last(st.numvars))
    + (IF st.olength # <<>> /\ Len(st.output) > Last(st.olength) THEN 1 ELSE 0)

closed(st) == [st EXCEPT !.numvars = IF @ = <<>> THEN @ ELSE Front(@),
                         !.olength = IF @ = <<>> THEN @ ELSE Front(@)]

output(st, r) == IF r.thrown THEN r ELSE Returned([st EXCEPT !.output = r.value])

comma(r) ==
    IF r.thrown THEN r
    ELSE IF r.value.stack = <<>> THEN Thrown("jme.shunt.no left bracket in function")
    ELSE Returned([r.value EXCEPT !.numvars =
            IF @ = <<>> THEN @ ELSE [@ EXCEPT ![Len(@)] = @ + 1]])

operator(r, tok) == IF r.thrown THEN r ELSE Returned(push(r.value, tok))

rightSquare(r) ==
    IF r.thrown THEN r
    ELSE IF r.value.stack = <<>> THEN Thrown("jme.shunt.no left square bracket")
    ELSE output([closed(r.value) EXCEPT !.stack = Front(@), !.listmode = Front(@)],
                addoutput(r.value.output,
                          IF Last(r.value.listmode) = "new" THEN TListVars(counted(r.value))
                                                            ELSE TFunc("listval", 2)))

rightBracket(r) ==
    IF r.thrown THEN r
    ELSE IF r.value.stack = <<>> THEN Thrown("jme.shunt.no left bracket")
    ELSE IF Len(r.value.stack) > 1 /\ r.value.stack[Len(r.value.stack) - 1].type = "function"
    THEN output([closed(r.value) EXCEPT !.stack = SubSeq(@, 1, Len(@) - 2)],
                addoutput(r.value.output,
                          TFunc(r.value.stack[Len(r.value.stack) - 1].name, counted(r.value))))
    ELSE Returned([r.value EXCEPT !.stack = Front(@)])

\* One turn of the for loop: the switch on tokens[i].type.
shuntToken(tokens, i, st) ==
    CASE tokens[i].type \in {"number", "string", "boolean"} ->
            output(st, addoutput(st.output, tokens[i]))
      [] tokens[i].type = "name" ->
            IF i < Len(tokens) /\ tokens[i + 1].type = "("
            THEN Returned(opened(push(st, TFunc(
                    IF tokens[i].name \in DOMAIN funcSynonyms THEN funcSynonyms[tokens[i].name]
                                                              ELSE tokens[i].name, 0))))
            ELSE output(st, addoutput(st.output, tokens[i]))
      [] tokens[i].type = "," ->
            comma(popUntil(st, {"(", "["}))
      [] tokens[i].type = "op" ->
            operator(IF tokens[i].prefix THEN Returned(st) ELSE popOps(st, tokens[i]), tokens[i])
      [] tokens[i].type = "[" ->
            Returned(opened([push(st, tokens[i]) EXCEPT !.listmode = Append(@,
                IF i = 1 THEN "new"
                ELSE IF tokens[i - 1].type \in {"(", "[", ",", "op", "keypair"} THEN "new"
                ELSE "index")]))
      [] tokens[i].type = "]" ->
            rightSquare(popUntil(st, {"["}))
      [] tokens[i].type = "(" ->
            Returned(push(st, tokens[i]))
      [] tokens[i].type = ")" ->
            rightBracket(popUntil(st, {"("}))
      [] tokens[i].type = "keypair" ->
            Returned(push(st, tokens[i]))

\* while(stack.length): a left bracket still on the stack is an error,
\* anything else goes to the output.
RECURSIVE flush(_)
flushMore(r) == IF r.thrown THEN r ELSE flush(r.value)

flush(st) ==
    IF st.stack = <<>> THEN Returned(st)
    ELSE IF Last(st.stack).type = "(" THEN Thrown("jme.shunt.no right bracket")
    ELSE flushMore(popped(st, addoutput(st.output, Last(st.stack))))

finish(r) ==
    IF r.thrown THEN r
    ELSE IF r.value.listmode # <<>> THEN Thrown("jme.shunt.no right square bracket")
    ELSE IF Len(r.value.output) > 1 THEN Thrown("jme.shunt.missing operator")
    ELSE IF r.value.output = <<>> THEN Returned(undefined)
    ELSE Returned(r.value.output[1])

RECURSIVE shuntFrom(_, _, _)
shuntNext(tokens, i, r) == IF r.thrown THEN r ELSE shuntFrom(tokens, i + 1, r.value)

shuntFrom(tokens, i, st) ==
    IF i > Len(tokens) THEN finish(flush(st))
    ELSE shuntNext(tokens, i, shuntToken(tokens, i, st))

shunt(tokens) == shuntFrom(tokens, 1, Shunting)

\* ---------------------------------------------------------------------------
\* Parsing expressions: jme.compile runs the tokeniser, then the parser.

MaxLexemes == 3

Alphabet ==
    {Lexeme("number", "1"), Lexeme("name", "a"), Lexeme("name", "pi"), Lexeme("bool", "true"),
     Lexeme("op", "+"), Lexeme("op", "!"), Lexeme("string", "s"), Lexeme("keypair", ":")}
    \cup {Lexeme("punctuation", c) : c \in {"(", ")", "[", "]", ","}}

BinaryOps == {";", "^", "*", "/", "+", "-", "|", "..", "#", "except", "in", "<", ">", "<=",
              ">=", "<>", "=", "isa", "and", "or", "xor", "implies"}

Var(name) == Lexeme("name", name)

Op(op) == Lexeme("op", op)

\* a p b q c, and a prefix sign before or after a binary operator
OperatorForms ==
    {<<Var("a"), Op(p), Var("b"), Op(q), Var("c")>> : p, q \in BinaryOps}
    \cup {<<Op(u), Var("a"), Op(p), Var("b")>> : u \in {"+", "-"}, p \in BinaryOps}
    \cup {<<Var("a"), Op(p), Op(u), Var("b")>> : u \in {"+", "-"}, p \in BinaryOps}
    \cup {<<Lexeme("number", "1"), Op("+"), Lexeme("number", "2"), Op("*"),
            Lexeme("number", "3")>>}

Expressions == UNION {[1..n -> Alphabet] : n \in 1..MaxLexemes} \cup OperatorForms

InitParse ==
    /\ run \in {[pc |-> "expr", lexemes |-> e] : e \in Expressions}
    /\ scopes = BuiltinHeap
    /\ last = NoCall
    /\ funcObjAcc = LoadedFuncObjs
    /\ pool = {}
    /\ evaluations = 0

\* var tokens = jme.tokenise(expr)
Tokenise ==
    /\ run.pc = "expr"
    /\ run' = [pc |-> "tokens", lexemes |-> run.lexemes, tokens |-> tokenise(run.lexemes)]
    /\ last' = [op |-> "tokenise"]
    /\ UNCHANGED <<scopes, funcObjAcc, pool, evaluations>>

\* var tree = jme.shunt(tokens)
Shunt ==
    /\ run.pc = "tokens"
    /\ ~run.tokens.thrown
    /\ run' = [pc |-> "tree", lexemes |-> run.lexemes, tokens |-> run.tokens,
               tree |-> shunt(run.tokens.value)]
    /\ last' = [op |-> "shunt"]
    /\ UNCHANGED <<scopes, funcObjAcc, pool, evaluations>>

NextParse == Tokenise \/ Shunt

SpecParse == InitParse /\ [][NextParse]_vars

\* What the tokeniser recognises a lexeme as: the type of its token.
recognised(lexeme) ==
    CASE lexeme.kind = "number" -> "number"
      [] lexeme.kind = "bool" -> "boolean"
      [] lexeme.kind = "op" -> "op"
      [] lexeme.kind = "name" ->
            IF toLowerCase(lexeme.text) \in constants THEN "number" ELSE "name"
      [] lexeme.kind = "punctuation" -> lexeme.text
      [] lexeme.kind = "string" -> "string"
      [] lexeme.kind = "keypair" -> "keypair"

\* How a lexeme is written: a number literal, the name of a constant, a
\* name, or as recognised.
written(lexeme) ==
    CASE lexeme.kind = "number" -> "literal"
      [] lexeme.kind = "name" /\ recognised(lexeme) = "number" -> "constant"
      [] OTHER -> recognised(lexeme)

\* A token as seen from outside: the multiplication sign, or its type.
Sign(tok) == IF tok.type = "op" /\ tok.name = "*" THEN "*" ELSE tok.type

Signs(tokens) == [k \in 1..Len(tokens) |-> Sign(tokens[k])]

\* The tokens expected of the lexemes from the i-th on, when a multiplication
\* sign goes between the previous token and the next lexeme exactly for the
\* given pairs <<type of the previous token, how the next lexeme is written>>.
\* A key pair takes the place of the string before it.
RECURSIVE ExpectedSigns(_, _, _, _)
ExpectedSigns(lexemes, i, out, pairs) ==
    IF i > Len(lexemes) THEN out
    ELSE IF lexemes[i].kind = "keypair"
    THEN ExpectedSigns(lexemes, i + 1, Append(Front(out), "keypair"), pairs)
    ELSE ExpectedSigns(lexemes, i + 1,
            (IF i > 1 /\ <<recognised(lexemes[i - 1]), written(lexemes[i])>> \in pairs
             THEN Append(out, "*") ELSE out)
            \o <<IF lexemes[i] = Op("*") THEN "*" ELSE recognised(lexemes[i])>>,
            pairs)

Tokenised == run.pc # "expr" /\ ~run.tokens.thrown

StatedPairs == {"number", "name", ")"} \X {"literal", "constant", "name", "("}

InsertedPairs ==
    ({")", "name"} \X {"literal"})
    \cup ({"number", "name", ")"} \X {"name", "constant"})
    \cup ({"number", ")"} \X {"("})

\* C19 (as the code has it): the tokeniser inserts a multiplication sign
\* exactly before a number literal that follows ')' or a name, before a name
\* (or the name of a constant) that follows a number, a name or ')', and
\* before '(' that follows a number or ')'; it inserts no other token.  It
\* inserts nothing between two number literals or between a name and '('.
C19_InsertsTimes ==
    Tokenised => Signs(run.tokens.value) = ExpectedSigns(run.lexemes, 1, <<>>, InsertedPairs)

\* '1 a (' becomes the tokens 1 * a ( : a sign between the number and the
\* name, none between the name and the bracket.
C19_Witness ==
    /\ Tokenised
    /\ run.lexemes = <<Lexeme("number", "1"), Var("a"), Lexeme("punctuation", "(")>>
    /\ Signs(run.tokens.value) = <<"number", "*", "name", "(">>

\* C19 as stated: a multiplication sign between every number, name or ')'
\* and every following number, name or '('.
C19_AsStated ==
    Tokenised => Signs(run.tokens.value) = ExpectedSigns(run.lexemes, 1, <<>>, StatedPairs)

\* The brackets among the tokens are properly matched and nested: read from
\* the i-th token on, with the brackets still open in `open`.
RECURSIVE Nested(_, _, _)
Nested(tokens, i, open) ==
    IF i > Len(tokens) THEN open = <<>>
    ELSE IF tokens[i].type \in {"(", "["} THEN Nested(tokens, i + 1, Append(open, tokens[i].type))
    ELSE IF tokens[i].type \in {")", "]"}
    THEN /\ open # <<>>
         /\ Last(open) = (IF tokens[i].type = ")" THEN "(" ELSE "[")
         /\ Nested(tokens, i + 1, Front(open))
    ELSE Nested(tokens, i + 1, open)

\* C18: shunt raises an error for every token sequence whose brackets are not
\* properly matched and nested; no such sequence yields a syntax tree.
C18_BracketsMatched ==
    (run.pc = "tree" /\ ~Nested(run.tokens.value, 1, <<>>)) => run.tree.thrown

Binary(op, left, right) == [tok |-> TOp(op, FALSE, FALSE), args |-> <<left, right>>]

Unary(op, arg) == [tok |-> TOp(prefixForm[op], FALSE, TRUE), args |-> <<arg>>]

Operand(name) == [tok |-> TName(name)]

Literal(n) == [tok |-> TNum(n)]

Parsed(lexemes, tree) == run.lexemes = lexemes => run.tree = Returned(tree)

\* C17: operators are grouped by the precedence table and associativity.
\* The tokens a p b q c parse to (a p b) q c when p binds at least as tightly
\* as q and q is left-associative, and to a p (b q c) when q binds tighter or
\* p = q is right-associative; a prefix sign binds tighter than
\* multiplication and looser than exponentiation; 1+2*3 is 1+(2*3).
C17_Grouping ==
    run.pc = "tree" =>
        /\ \A p, q \in BinaryOps :
            /\ (precedence[p] <= precedence[q] /\ q \notin rightAssociative)
                => Parsed(<<Var("a"), Op(p), Var("b"), Op(q), Var("c")>>,
                          Binary(q, Binary(p, Operand("a"), Operand("b")), Operand("c")))
            /\ (precedence[q] < precedence[p] \/ (p = q /\ p \in rightAssociative))
                => Parsed(<<Var("a"), Op(p), Var("b"), Op(q), Var("c")>>,
                          Binary(p, Operand("a"), Binary(q, Operand("b"), Operand("c"))))
        /\ \A u \in {"+", "-"} :
            /\ \A p \in {"*", "/"} :
                Parsed(<<Op(u), Var("a"), Op(p), Var("b")>>,
                       Binary(p, Unary(u, Operand("a")), Operand("b")))
            /\ Parsed(<<Op(u), Var("a"), Op("^"), Var("b")>>,
                      Unary(u, Binary("^", Operand("a"), Operand("b"))))
        /\ Parsed(<<Lexeme("number", "1"), Op("+"), Lexeme("number", "2"), Op("*"),
                    Lexeme("number", "3")>>,
                  Binary("+", Literal(1), Binary("*", Literal(2), Literal(3))))

\* a^b^c has been parsed to a^(b^c).
C17_Witness ==
    /\ run.pc = "tree"
    /\ run.lexemes = <<Var("a"), Op("^"), Var("b"), Op("^"), Var("c")>>
    /\ run.tree = Returned(Binary("^", Operand("a"),
                                  Binary("^", Operand("b"), Operand("c"))))

\* ---------------------------------------------------------------------------
\* The random search: function satisfy(names, definitions, conditions, scope,
\* maxRuns), one pass of its while loop per step.  The definitions draw their
\* random numbers from the name `random`, which holds the draw of the pass.

MaxRuns == 3

MaxDraw == 1

SatisfyNames == <<"x">>

SatisfyDefinitions == {<<NameT("random")>>, <<NumT(1)>>, <<NameT("nowhere")>>, <<>>}

xBelow1 == OpT("<", <<NameT("x"), NumT(1)>>)

SatisfyConditions ==
    {<<>>, <<xBelow1>>, <<BoolT(TRUE), xBelow1>>, <<BoolT(FALSE)>>, <<NameT("x")>>}

InitSatisfy ==
    /\ run \in {[pc |-> "call", names |-> SatisfyNames, definitions |-> d, conditions |-> c,
                 maxRuns |-> n, runs |-> 0, satisfied |-> FALSE, variables |-> EmptyDict,
                 attempts |-> <<>>, message |-> ""] :
                d \in SatisfyDefinitions, c \in SatisfyConditions, n \in 0..MaxRuns}
    /\ scopes = BuiltinHeap
    /\ last = NoCall
    /\ funcObjAcc = LoadedFuncObjs
    /\ pool = {}
    /\ evaluations = 0

loopingMutOnceMore(runs, maxRuns, satisfied) == runs <= maxRuns /\ ~satisfied

\* while(runs<maxRuns && !satisfied)
looping(runs, maxRuns, satisfied) == runs < maxRuns /\ ~satisfied

raised(message, h) ==
    Step([run EXCEPT !.pc = "thrown", !.message = message], h)

\* if(definitions.length!=names.length) throw
EnterSatisfy ==
    /\ run.pc = "call"
    /\ IF Len(run.definitions) # Len(run.names)
       THEN raised("jme.func.satisfy.wrong number of definitions", scopes)
       ELSE Step([run EXCEPT !.pc = "loop"], scopes)
    /\ last' = [op |-> "satisfy"]

values(variables) == [k \in 1..Len(run.names) |-> variables[run.names[k]]]

\* the pass once its conditions have been evaluated
conditionsTried(variables, c) ==
    IF Failed(c)
    THEN Step([run EXCEPT !.pc = "thrown", !.message = c.tok.message,
                          !.runs = @ + 1, !.variables = variables,
                          !.attempts = Append(@, "raised")], c.st.h)
    ELSE Step([run EXCEPT !.runs = @ + 1, !.variables = variables,
                          !.satisfied = c.tok.value,
                          !.attempts = Append(@, IF c.tok.value THEN "satisfied"
                                                               ELSE "failed")], c.st.h)

\* var nscope = new jme.Scope([scope,{variables:variables}])
inScope(variables, st, n) ==
    conditionsTried(variables,
        satisfyConditions(run.conditions, n.scope,
            [st EXCEPT !.h = setVariables(n.h, n.scope, run.names, values(variables))], 1))

\* the pass once its definitions have been evaluated
definitionsTried(d) ==
    IF Failed(d)
    THEN Step([run EXCEPT !.pc = "thrown", !.message = d.tok.message, !.runs = @ + 1,
                          !.attempts = Append(@, "raised")], d.st.h)
    ELSE inScope(d.tok.value, d.st, NewChild(d.st.h, 1))

\* one pass of the loop, the random draw of the pass given
Attempt(draw) ==
    /\ run.pc = "loop"
    /\ looping(run.runs, run.maxRuns, run.satisfied)
    /\ run.runs <= MaxRuns
    /\ definitionsTried(satisfyDefinitions(run.names, run.definitions, 1,
            NewEvaluation(setVariable(scopes, 1, "random", TNum(draw))), EmptyDict))
    /\ last' = [op |-> "attempt", draw |-> draw]

\* if(!satisfied) throw ...; return variables
LeaveSatisfy ==
    /\ run.pc = "loop"
    /\ ~looping(run.runs, run.maxRuns, run.satisfied)
    /\ IF ~run.satisfied
       THEN raised("jme.func.satisfy.took too many runs", scopes)
       ELSE Step([run EXCEPT !.pc = "returned"], scopes)
    /\ last' = [op |-> "leave"]

NextSatisfy ==
    \/ EnterSatisfy
    \/ \E draw \in 0..MaxDraw : Attempt(draw)
    \/ LeaveSatisfy

SpecSatisfy == InitSatisfy /\ [][NextSatisfy]_vars

\* every condition evaluates to true under the assignment
holds(condition, n) ==
    evaluate(condition, n.scope,
             NewEvaluation(setVariables(n.h, n.scope, run.names, values(run.variables)))).tok
        = TBool(TRUE)

AllHold == \A k \in 1..Len(run.conditions) : holds(run.conditions[k], NewChild(scopes, 1))

AllFailed(n) == \A k \in 1..n : run.attempts[k] = "failed"

SatisfyErrors ==
    {"jme.func.satisfy.wrong number of definitions",
     "jme.func.satisfy.condition not a boolean"}

\* C20 (as the code has it): satisfy makes at most maxRuns attempts and never
\* goes round its loop beyond that.  It returns an assignment under which
\* every condition evaluated to true on the final attempt, all earlier ones
\* having failed; or it raises 'took too many runs' after exactly maxRuns
\* failed attempts; or it raises another error at once: the numbers of names
\* and definitions differ, a condition is not a boolean, or an evaluation
\* raises.
C20_Bounded ==
    run.pc # "call" =>
        /\ run.runs <= run.maxRuns
        /\ Len(run.attempts) = run.runs
        /\ run.pc = "returned" =>
            /\ run.runs >= 1
            /\ run.attempts[run.runs] = "satisfied"
            /\ AllFailed(run.runs - 1)
            /\ AllHold
        /\ (run.pc = "thrown" /\ run.message = "jme.func.satisfy.took too many runs") =>
            /\ run.runs = run.maxRuns
            /\ AllFailed(run.runs)
        /\ (run.pc = "thrown" /\ run.message # "jme.func.satisfy.took too many runs") =>
            /\ AllFailed(run.runs - 1)
            /\ \/ run.message \in SatisfyErrors
               \/ (run.runs >= 1 /\ run.attempts[run.runs] = "raised")

\* the search has returned on its last allowed attempt, after failures
C20_Witness ==
    /\ run.pc = "returned"
    /\ run.maxRuns = MaxRuns
    /\ run.runs = run.maxRuns
    /\ run.conditions = <<BoolT(TRUE), xBelow1>>

\* C20 as stated: the only outcomes are the assignment and 'took too many
\* runs' after exactly maxRuns failed attempts.
C20_AsStated ==
    run.pc = "thrown" =>
        /\ run.message = "jme.func.satisfy.took too many runs"
        /\ run.runs = run.maxRuns
        /\ AllFailed(run.runs)

\* ---------------------------------------------------------------------------
\* The script loader: RequireScript, Numbas.loadScript, Numbas.queueScript and
\* Numbas.tryInit.  The loader's state is scriptreqs (reqs, with the order in
\* which its keys were created) and Numbas.dead; `log` keeps, for every
\* callback that was invoked, what had been executed at that moment.

Files == {"a", "b", "c"}

MaxStack == 3

MaxCalls == 3

\* a file not in scriptreqs; `known` says the key exists
NoScript == [known |-> FALSE, loaded |-> FALSE, executed |-> FALSE,
             backdeps |-> <<>>, fdeps |-> <<>>]

Loader(scripts, live) ==
    [scripts |-> scripts, live |-> live, reqs |-> [f \in Files |-> NoScript],
     order |-> <<>>, dead |-> FALSE, log |-> <<>>]

\* new RequireScript(file)
RequireScript(st, file) ==
    [st EXCEPT !.reqs[file] = [NoScript EXCEPT !.known = TRUE], !.order = Append(@, file)]

loadScript(st, file) == IF st.reqs[file].known THEN st ELSE RequireScript(st, file)

\* the loop of queueScript over deps
RECURSIVE requireDeps(_, _, _, _)
requireDeps(st, file, deps, i) ==
    IF i > Len(deps) THEN st
    ELSE requireDeps([loadScript(st, deps[i]) EXCEPT !.reqs[deps[i]].backdeps = Append(@, file)],
                     file, deps, i + 1)

\* queueScript up to its call of tryInit
loaded(st, file) ==
    [requireDeps(loadScript(st, file), file, st.scripts[file].deps, 1)
        EXCEPT !.reqs[file].fdeps = st.scripts[file].deps, !.reqs[file].loaded = TRUE]

goMutAlways(st, file) == TRUE

\* the loop of tryRun over req.fdeps
go(st, file) ==
    \A j \in 1..Len(st.reqs[file].fdeps) : st.reqs[st.reqs[file].fdeps[j]].executed

Executed(st) == {f \in Files : st.reqs[f].executed}

Invocation(st, file, outcome) ==
    [file |-> file, executed |-> Executed(st), dead |-> st.dead, outcome |-> outcome]

logged(st, file, outcome) == [st EXCEPT !.log = Append(@, Invocation(st, file, outcome))]

RECURSIVE queueScript(_, _, _)
RECURSIVE tryInit(_, _)
RECURSIVE tryRun(_, _, _)

\* req.callback({exports:window}): the script's code.  It returns, throws, or
\* queues another script; a call that finds the stack full throws.
callback(st, file, depth) ==
    IF depth >= MaxStack THEN Thrown("RangeError") @@ [st |-> logged(st, file, "overflow")]
    ELSE CASE st.scripts[file].body.kind = "plain" ->
                Returned(null) @@ [st |-> logged(st, file, "returned")]
           [] st.scripts[file].body.kind = "throws" ->
                Thrown("error") @@ [st |-> logged(st, file, "thrown")]
           [] st.scripts[file].body.kind = "queues" ->
                Returned(null) @@ [st |-> queueScript(logged(st, file, "returned"),
                                                      st.scripts[file].body.file, depth + 1)]

\* the loop of tryRun over req.backdeps
RECURSIVE backdeps(_, _, _, _)
tried(r, file, j, depth) == IF r.thrown THEN r ELSE backdeps(r.st, file, j + 1, depth)

backdeps(st, file, j, depth) ==
    IF j > Len(st.reqs[file].backdeps) THEN Returned(null) @@ [st |-> st]
    ELSE tried(tryRun(st, st.reqs[file].backdeps[j], depth), file, j, depth)

\* req.executed=true, once the callback has returned
called(r, file, depth) ==
    IF r.thrown THEN r
    ELSE backdeps([r.st EXCEPT !.reqs[file].executed = TRUE], file, 1, depth)

tryRun(st, file, depth) ==
    IF st.reqs[file].loaded /\ ~st.reqs[file].executed
    THEN IF go(st, file) THEN called(callback(st, file, depth), file, depth)
                         ELSE Returned(null) @@ [st |-> st]
    ELSE Returned(null) @@ [st |-> st]

\* for(var x in scriptreqs): the keys there at the start, and, when live,
\* the keys created during the loop as well
RECURSIVE initLoop(_, _, _, _)
caught(r, n, x, depth) ==
    IF r.thrown THEN [r.st EXCEPT !.dead = TRUE] ELSE initLoop(r.st, n, x + 1, depth)

initLoop(st, n, x, depth) ==
    IF x > (IF st.live THEN Len(st.order) ELSE n) THEN st
    ELSE caught(tryRun(st, st.order[x], depth), n, x, depth)

tryInit(st, depth) == IF st.dead THEN st ELSE initLoop(st, Len(st.order), 1, depth)

queueScript(st, file, depth) == tryInit(loaded(st, file), depth)

\* The scripts: what each file's queueScript call passes.  A file names at
\* most one dependency; at most one callback queues a script and at most one
\* throws.
DepLists == {<<>>} \cup {<<f>> : f \in Files}

Plain == [kind |-> "plain", file |-> ""]

Throws == [kind |-> "throws", file |-> ""]

Queues(file) == [kind |-> "queues", file |-> file]

Bodies ==
    {b \in [Files -> {Plain, Throws} \cup {Queues(f) : f \in Files}] :
        /\ Cardinality({f \in Files : b[f].kind = "queues"}) <= 1
        /\ Cardinality({f \in Files : b[f].kind = "throws"}) <= 1}

Scripts == {[f \in Files |-> [deps |-> d[f], body |-> b[f]]] : d \in [Files -> DepLists], b \in Bodies}

InitLoader ==
    /\ run \in {[pc |-> "loader", calls |-> 0, st |-> Loader(scripts, live)] :
                scripts \in Scripts, live \in BOOLEAN}
    /\ scopes = BuiltinHeap
    /\ last = NoCall
    /\ funcObjAcc = LoadedFuncObjs
    /\ pool = {}
    /\ evaluations = 0

\* Numbas.loadScript(file)
LoadScript(file) ==
    /\ run.pc = "loader"
    /\ run.calls < MaxCalls
    /\ run' = [run EXCEPT !.calls = @ + 1, !.st = loadScript(run.st, file)]
    /\ last' = [op |-> "loadScript", file |-> file]
    /\ UNCHANGED <<scopes, funcObjAcc, pool, evaluations>>

\* Numbas.queueScript(file, deps, callback), called by the file's own code
QueueScript(file) ==
    /\ run.pc = "loader"
    /\ run.calls < MaxCalls
    /\ run' = [run EXCEPT !.calls = @ + 1, !.st = queueScript(run.st, file, 0)]
    /\ last' = [op |-> "queueScript", file |-> file]
    /\ UNCHANGED <<scopes, funcObjAcc, pool, evaluations>>

NextLoader ==
    \/ \E file \in Files : LoadScript(file)
    \/ \E file \in Files : QueueScript(file)

SpecLoader == InitLoader /\ [][NextLoader]_vars

DepsOf(f) == {run.st.scripts[f].deps[j] : j \in 1..Len(run.st.scripts[f].deps)}

\* the files f depends on, directly or through others
Needs(f) ==
    LET one == DepsOf(f)
        two == one \cup UNION {DepsOf(x) : x \in one}
    IN two \cup UNION {DepsOf(x) : x \in two}

Queued == {f \in Files : run.st.reqs[f].loaded}

\* the callbacks that were entered, in order
Invoked1 == {k \in 1..Len(run.st.log) : run.st.log[k].outcome # "overflow"}

C25_AtMostOnce ==
    \A f \in Files : Cardinality({k \in Invoked1 : run.st.log[k].file = f}) <= 1

NoneThrew == \A k \in 1..Len(run.st.log) : run.st.log[k].outcome = "returned"

\* C26: when the dependency graph of the queued scripts is acyclic, every
\* dependency has been queued and no callback has thrown, every queued script
\* has been executed when the queueScript call returns; and no callback is
\* invoked once Numbas.dead is set.
C26_AllExecuted ==
    /\ (/\ \A f \in Queued : Needs(f) \subseteq Queued /\ f \notin Needs(f)
        /\ NoneThrew)
       => Queued \subseteq Executed(run.st)
    /\ \A k \in Invoked1 : ~run.st.log[k].dead

\* ---------------------------------------------------------------------------
\* C24: at any point of any interleaving of addFunction and getFunction on
\* the scopes of a chain, scope.getFunction(name) returns exactly the
\* definitions of name registered so far on the scope and its ancestors,
\* also those added after an earlier lookup of the name on the scope.
C24_LookupCoherent ==
    last.op = "getFunction" =>
        {last.fns[i] : i \in 1..Len(last.fns)} = Definitions(scopes, last.scope, last.name)

\* ---------------------------------------------------------------------------
\* jme.isRandom(expr, scope).  fn.random is a field of the function object:
\* `random` maps the id of a function object to "undefined", "true" or
\* "false".  A state st is [h, random]; the call returns [value, st].

\* a function made by jme.variables.makeFunction with language 'jme'
jmeFunction(id, name, tree) ==
    funcObj(id, name, <<"?">>, "jme", [language |-> "jme", tree |-> tree])

isJME(fn) == "language" \in DOMAIN fn.data

RECURSIVE isRandom(_, _, _)
RECURSIVE fnsRandom(_, _, _, _, _)
RECURSIVE argsRandom(_, _, _, _)

argRandom(expr, s, i, r) ==
    IF r.value THEN r ELSE argsRandom(expr, s, i + 1, r.st)

\* the loop over expr.args
argsRandom(expr, s, i, st) ==
    IF i > Len(expr.args) THEN [value |-> FALSE, st |-> st]
    ELSE argRandom(expr, s, i, isRandom(expr.args[i], s, st))

\* if(fn.random) return true
fnRandom(expr, s, fns, i, st) ==
    IF st.random[fns[i].id] = "true" THEN [value |-> TRUE, st |-> st]
    ELSE fnsRandom(expr, s, fns, i + 1, st)

\* fn.random = jme.isRandom(fn.tree,scope)
treeRandom(expr, s, fns, i, r) ==
    fnRandom(expr, s, fns, i,
             [r.st EXCEPT !.random[fns[i].id] = IF r.value THEN "true" ELSE "false"])

seededMutUndefined(st, fn) == st

\* fn.random = false, put in to avoid infinite recursion
seeded(st, fn) == [st EXCEPT !.random[fn.id] = "false"]

\* the loop over fns
fnsRandom(expr, s, fns, i, st) ==
    IF i > Len(fns) THEN argsRandom(expr, s, 1, st)
    ELSE IF st.random[fns[i].id] = "undefined" /\ isJME(fns[i])
    THEN treeRandom(expr, s, fns, i, isRandom(fns[i].data.tree, s, seeded(st, fns[i])))
    ELSE fnRandom(expr, s, fns, i, st)

found(expr, s, got, st) == fnsRandom(expr, s, got.fns, 1, [st EXCEPT !.h = got.h])

isRandom(expr, s, st) ==
    IF expr.tok.type \in {"op", "function"}
    THEN found(expr, s, getFunction(st.h, s, toLowerCase(expr.tok.name)), st)
    ELSE [value |-> FALSE, st |-> st]

\* Specification: a scope with the builtin random() and two functions f and g
\* defined in JME, queried in any order.
Zero == NumT(0)

Random0 == FnT("random", <<>>)

CallF == FnT("f", <<Zero>>)

CallG == FnT("g", <<Zero>>)

Calls == {Zero, Random0, CallF, CallG}

FnBodies == Calls \cup {OpT("+", <<a, b>>) : a, b \in Calls}

RandomIds == 0..(LoadedFuncObjs + 2)

RandomHeap(bodyF, bodyG) ==
    addFunctions(Append(BuiltinHeap, NewScope(1)), 2,
        << funcObj(LoadedFuncObjs, "random", <<>>, "random", NoData),
           jmeFunction(LoadedFuncObjs + 1, "f", bodyF),
           jmeFunction(LoadedFuncObjs + 2, "g", bodyG) >>)

InitRandom ==
    /\ \E bodyF, bodyG \in FnBodies :
        /\ scopes = RandomHeap(bodyF, bodyG)
        /\ run = [pc |-> "random", f |-> bodyF, g |-> bodyG,
                  random |-> [id \in RandomIds |->
                                IF id = LoadedFuncObjs THEN "true" ELSE "undefined"]]
    /\ last = NoCall
    /\ funcObjAcc = LoadedFuncObjs + 3
    /\ pool = {}
    /\ evaluations = 0

answered(expr, r) ==
    /\ run' = [run EXCEPT !.random = r.st.random]
    /\ scopes' = r.st.h
    /\ last' = [op |-> "isRandom", expr |-> expr, value |-> r.value]
    /\ UNCHANGED <<funcObjAcc, pool, evaluations>>

\* jme.isRandom(expr, scope)
IsRandom(expr) ==
    /\ run.pc = "random"
    /\ answered(expr, isRandom(expr, 2, [h |-> scopes, random |-> run.random]))

NextRandom == \E expr \in FnBodies : IsRandom(expr)

SpecRandom == InitRandom /\ [][NextRandom]_vars

\* the names of the functions and operators applied in a tree
RECURSIVE Applied(_)
Applied(tree) ==
    IF IsLeaf(tree) THEN {}
    ELSE {tree.tok.name} \cup UNION {Applied(tree.args[i]) : i \in 1..Len(tree.args)}

BodyOf(name) == IF name = "f" THEN run.f ELSE run.g

\* the names with a definition marked random, or defined in JME with a body
\* that is random, directly or through other definitions
RandomNames ==
    LET one == {"random"} \cup {n \in {"f", "g"} : "random" \in Applied(BodyOf(n))}
        two == one \cup {n \in {"f", "g"} : Applied(BodyOf(n)) \cap one # {}}
    IN two \cup {n \in {"f", "g"} : Applied(BodyOf(n)) \cap two # {}}

\* C21: isRandom(expr, scope) is true exactly when expr contains an
\* application of a function with a definition marked random or a JME
\* definition whose body is transitively random, whatever queries were made
\* before.
C21_RandomExactly ==
    last.op = "isRandom" => (last.value <=> (Applied(last.expr) \cap RandomNames # {}))

(***************************************************************************)
(* Specification SpecStateful: top-level evaluations, one after the other, *)
(* on a StatefulScope whose parent is the built-in scope.  The trees are   *)
(* lists of calls of the state functions, of failing calls, and of the     *)
(* lazy operations that evaluate their arguments in nested evaluations.    *)
(***************************************************************************)
MaxTop == 2

MaxElems == 2

\* newBuiltin('try', ['?',TName,'?'], '?', null, {evaluate: ...})
try == funcObj(LoadedFuncObjs, "try", <<"?", "name", "?">>, "try", NoData)

Correct == FnT("correct", <<>>)

Incorrect == FnT("incorrect", <<>>)

NoSuch == FnT("nosuch", <<>>)

Try(a, b) == FnT("try", <<a, NameT("e"), b>>)

Elems ==
    { Correct, Incorrect, NoSuch, NumT(0),
      Try(NoSuch, NumT(0)), Try(NoSuch, Correct), Try(Incorrect, Correct),
      Try(ListT(<<Correct, NoSuch>>), NumT(0)),
      If(Correct, Incorrect, NumT(0)),
      FnT("let", <<NameT("x"), Correct, Incorrect>>),
      FnT("map", <<Correct, NameT("x"), List12>>) }

StatefulTrees ==
    Elems \cup { ListT(elems) : elems \in UNION { [1..n -> Elems] : n \in 1..MaxElems } }

InitStateful ==
    /\ scopes = AllocStateful(addFunction(BuiltinHeap, 1, try), 1)
    /\ last = NoCall
    /\ funcObjAcc = LoadedFuncObjs + 1
    /\ pool = {}
    /\ evaluations = 0
    /\ run = NoRun

\* what a call from outside leaves: the scopes that were there, the token or
\* the error, and the function objects that were invoked, in order
TopEvaluated(tree, r) ==
    /\ evaluations < MaxTop
    /\ evaluations' = evaluations + 1
    /\ scopes' = SubSeq(r.st.h, 1, Len(scopes))
    /\ last' = [op |-> "top", tree |-> tree, tok |-> r.tok, calls |-> r.st.calls,
                before |-> scopes[2].state]
    /\ UNCHANGED <<funcObjAcc, pool, run>>

\* scope.evaluate(tree) on the StatefulScope
TopEvaluate(tree) == TopEvaluated(tree, evaluate(tree, 2, NewEvaluation(scopes)))

\* scope.evaluate(tree, {e: 0}) on the StatefulScope
TopEvaluateWith(tree) ==
    TopEvaluated(tree, evaluateWith(tree, <<"e">>, <<TNum(0)>>, 2, NewEvaluation(scopes)))

NextStateful ==
    \/ \E tree \in StatefulTrees : TopEvaluate(tree)
    \/ \E tree \in Elems : TopEvaluateWith(tree)

SpecStateful == InitStateful /\ [][NextStateful]_vars

\* the operations of the state functions among the invoked function objects
RECURSIVE Emitted(_)
Emitted(calls) ==
    IF calls = <<>> THEN <<>>
    ELSE (IF \E k \in 1..Len(state_functions) : state_functions[k].id = Head(calls)
          THEN (CHOOSE fn \in {state_functions[k] : k \in 1..Len(state_functions)} :
                    fn.id = Head(calls)).data.state
          ELSE <<>>) \o Emitted(Tail(calls))

ReturnedNormally == last.op = "top" /\ ~IsError(last.tok)

\* C29: after a top-level StatefulScope.evaluate has returned normally, the
\* state of the scope is the sequence of the operations the state functions
\* emitted during that evaluation, in the order of emission.
C29_StateIsEmitted == ReturnedNormally => scopes[2].state = Emitted(last.calls)

(***************************************************************************)
(* The notes of a marking script: makeVariables with compute_note as its   *)
(* computeFn.  An activation gives [thrown, message, value, st]; st is an  *)
(* evaluation state that also carries the dictionaries states, state_valid *)
(* and state_errors of the StatefulScope.                                  *)
(***************************************************************************)
\* Numbas.marking.ignore_note_errors, which nothing in the file assigns
ignore_note_errors == FALSE

NoteThrown(message, st) == [thrown |-> TRUE, message |-> message, value |-> undefined, st |-> st]

NoteReturned(value, st) == [thrown |-> FALSE, message |-> "", value |-> value, st |-> st]

\* scope.variables[name]
OwnVariable(h, s, name) == DictGet(h[s].variables, name)

\* s.note = s.note || name, on every operation of a state
Tagged(state, name) ==
    [i \in 1..Len(state) |->
        IF "note" \in DOMAIN state[i] THEN state[i] ELSE state[i] @@ [note |-> name]]

\* the loop of compute_note over scope.state, looking for an invalid 'end'
endsInvalid(state) ==
    \E i \in 1..Len(state) :
        state[i].op = "end" /\ "invalid" \in DOMAIN state[i] /\ state[i].invalid

\* the loop of the catch clause over todo[name].vars
invalid_dep(name, todo, st) ==
    \E i \in 1..Len(todo[name].vars) :
        LET x == todo[name].vars[i]
        IN x \in DOMAIN todo /\ ~(x \in DOMAIN st.state_valid /\ st.state_valid[x])

\* scope.states[name] = scope.state.slice().map(...), and the return
stored(name, s, st) ==
    LET state == Tagged(st.h[s].state, name)
        st2 == [st EXCEPT !.h[s].state = state, !.states = DictSet(@, name, state)]
    IN NoteReturned(OwnVariable(st2.h, s, name), st2)

\* compute_note once computeVariable.apply(this, arguments) has given r
noted(name, todo, s, r) ==
    IF ~r.thrown
    THEN LET h2 == setVariable(r.st.h, s, name, r.value)
         IN stored(name, s,
                [r.st EXCEPT !.h = h2,
                             !.state_valid = DictSet(@, name, ~endsInvalid(h2[s].state))])
    ELSE LET st == [r.st EXCEPT !.state_errors = DictSet(@, name, r.message)]
         IN IF name \notin DOMAIN todo
            THEN \* todo[name] is undefined: todo[name].vars throws
                 NoteThrown("TypeError", st)
            ELSE IF invalid_dep(name, todo, st) \/ ignore_note_errors
            THEN stored(name, s, [st EXCEPT !.state_valid = DictSet(@, name, FALSE)])
            ELSE NoteThrown("Error evaluating note", st)

RECURSIVE compute_note(_, _, _, _, _)
RECURSIVE computeVariable(_, _, _, _, _)
RECURSIVE dependencies(_, _, _, _, _, _)

\* marking.compute_note(name, todo, scope, path, computeFn)
compute_note(name, todo, s, path, st) ==
    IF getVariable(st.h, s, name) # undefined THEN NoteReturned(undefined, st)
    ELSE IF name \in DOMAIN st.states THEN NoteReturned(OwnVariable(st.h, s, name), st)
    ELSE noted(name, todo, s, computeVariable(name, todo, s, path, st))

\* jme.variables.computeVariable past its loop over v.vars
evaluated(name, s, r) ==
    IF Failed(r) THEN NoteThrown("jme.variables.error evaluating variable", r.st)
    ELSE NoteReturned(r.tok, [r.st EXCEPT !.h[s].variables = DictSet(@, name, r.tok)])

\* the catch around computeFn(x, todo, scope, newpath, computeFn)
depended(name, todo, s, path, i, r) ==
    IF r.thrown
    THEN NoteThrown(catch([message |-> r.message], todo[name].vars[i]).message, r.st)
    ELSE dependencies(name, todo, s, path, i + 1, r.st)

\* the loop of computeVariable over v.vars, from its pass i
dependencies(name, todo, s, path, i, st) ==
    IF i > Len(todo[name].vars)
    THEN evaluated(name, s, evaluate(todo[name].tree, s, st))
    ELSE IF unresolved(st.h, s, todo[name].vars[i])
    THEN depended(name, todo, s, path, i,
                  compute_note(todo[name].vars[i], todo, s, newpath(path, name), st))
    ELSE dependencies(name, todo, s, path, i + 1, st)

\* jme.variables.computeVariable(name, todo, scope, path, compute_note)
computeVariable(name, todo, s, path, st) ==
    IF computed(st.h, s, name) THEN NoteReturned(OwnVariable(st.h, s, name), st)
    ELSE IF contains(path, name) THEN NoteThrown("jme.variables.circular reference", st)
    ELSE IF name \notin DOMAIN todo THEN NoteThrown("jme.variables.variable not defined", st)
    ELSE dependencies(name, todo, s, path, 1, st)

\* for(var x in todo) of makeVariables, over the notes in the order of the script
RECURSIVE makeNotes(_, _, _, _)
noteMade(order, todo, s, r) ==
    IF r.thrown THEN r ELSE makeNotes(Tail(order), todo, s, r.st)

makeNotes(order, todo, s, st) ==
    IF order = <<>> THEN NoteReturned(st.h[s].variables, st)
    ELSE noteMade(order, todo, s, compute_note(Head(order), todo, s, <<>>, st))

\* MarkingScript.prototype.evaluate(scope, variables) with no variables
MarkingScriptEvaluate(order, todo, h, parent) ==
    makeNotes(order, todo, Len(h) + 1,
              NewEvaluation(AllocStateful(h, parent))
                  @@ [states |-> EmptyDict, state_valid |-> EmptyDict,
                      state_errors |-> EmptyDict])

(***************************************************************************)
(* Specification SpecNotes: MarkingScript.evaluate on a script of up to    *)
(* three notes, written in any order, against the built-in scope.          *)
(***************************************************************************)
NoteTrees ==
    {NameT(x) : x \in Names} \cup {Plus1(x) : x \in Names}
        \cup {NumT(1), FnT("correct", <<>>), FnT("nosuch", <<>>)}

Notes == UNION {[D -> {Definition(t) : t \in NoteTrees}] : D \in SUBSET Names}

Orders(D) ==
    {o \in UNION {[1..n -> D] : n \in {Cardinality(D)}} :
        \A i, j \in 1..Len(o) : i # j => o[i] # o[j]}

InitNotes ==
    /\ scopes = BuiltinHeap
    /\ \E todo \in Notes : \E order \in Orders(DOMAIN todo) :
          run = [pc |-> "script", todo |-> todo, order |-> order]
    /\ last = NoCall
    /\ funcObjAcc = LoadedFuncObjs
    /\ pool = {}
    /\ evaluations = 0

\* script.evaluate(scope): the StatefulScope it made is kept on the heap
EvaluateScript ==
    /\ run.pc = "script"
    /\ LET r == MarkingScriptEvaluate(run.order, run.todo, scopes, 1)
       IN /\ scopes' = SubSeq(r.st.h, 1, Len(scopes) + 1)
          /\ run' = [run EXCEPT !.pc = "done"]
          /\ last' = [op |-> "script", thrown |-> r.thrown, message |-> r.message,
                      states |-> r.st.states, state_valid |-> r.st.state_valid,
                      state_errors |-> r.st.state_errors]
    /\ UNCHANGED <<funcObjAcc, pool, evaluations>>

NextNotes == EvaluateScript

SpecNotes == InitNotes /\ [][NextNotes]_vars

\* C23: a script whose notes contain a dependency cycle and define every
\* name they mention does not return from MarkingScript.evaluate: the call
\* ends in an error.
C23_CycleThrows ==
    (run.pc = "done" /\ CycleNames(run.todo) # {} /\ AllDefined(run.todo, <<>>))
        => last.thrown

(***************************************************************************)
(* marking.finalise_state, one pass of its loop over the operations per    *)
(* step.  run.i is the index of the operation the next pass looks at,      *)
(* counted from 1.                                                         *)
(***************************************************************************)
multiply_credit(factor) == [op |-> "multiply_credit", factor |-> factor]

add_credit(credit) == [op |-> "add_credit", credit |-> credit]

sub_credit(credit) == [op |-> "sub_credit", credit |-> credit]

end == [op |-> "end"]

endInvalid == [op |-> "end", invalid |-> TRUE]

feedback == [op |-> "feedback"]

concat(messages) == [op |-> "concat", messages |-> messages, scale |-> 1]

start_lift(scale) == [op |-> "start_lift", scale |-> scale]

end_lift == [op |-> "end_lift"]

\* marking.finalise_state(states) up to its loop
Finalising(states) ==
    [pc |-> "loop", input |-> states, states |-> states, i |-> 1, valid |-> TRUE,
     end |-> FALSE, credit |-> 0, out_states |-> <<>>, num_lifts |-> 0]

\* while(i+1<states.length && states[i+1].op!='end_lift') i += 1
RECURSIVE skipped(_, _)
skipped(states, i) ==
    IF i + 1 <= Len(states) /\ states[i + 1].op # "end_lift" THEN skipped(states, i + 1) ELSE i

\* states.slice(0,i+1).concat([start_lift], state.messages, [end_lift], states.slice(i+1))
lifted(states, i) ==
    SubSeq(states, 1, i) \o <<start_lift(states[i].scale)>> \o states[i].messages
        \o <<end_lift>> \o SubSeq(states, i + 1, Len(states))

CreditOps == {"set_credit", "multiply_credit", "add_credit", "sub_credit"}

\* what the credit is after a set_credit, multiply_credit, add_credit or sub_credit
credited(credit, state) ==
    CASE state.op = "set_credit" -> state.credit
      [] state.op = "multiply_credit" -> credit * state.factor
      [] state.op = "add_credit" -> credit + state.credit
      [] state.op = "sub_credit" -> credit - state.credit

InPass == run.pc = "loop" /\ run.i <= Len(run.states)

State == run.states[run.i]

Pass == UNCHANGED <<scopes, last, funcObjAcc, pool, evaluations>>

\* case 'set_credit', 'multiply_credit', 'add_credit', 'sub_credit'
Credit ==
    /\ InPass
    /\ State.op \in CreditOps
    /\ run' = [run EXCEPT !.out_states = Append(@, State), !.i = @ + 1,
                          !.credit = credited(@, State)]
    /\ Pass

\* case 'end'
End ==
    /\ InPass
    /\ State.op = "end"
    /\ IF run.num_lifts # 0
       THEN run' = [run EXCEPT !.i = skipped(run.states, run.i) + 1]
       ELSE run' = [run EXCEPT !.end = TRUE, !.pc = "done",
                               !.valid = ~("invalid" \in DOMAIN State /\ State.invalid)]
    /\ Pass

\* case 'concat'
Concat ==
    /\ InPass
    /\ State.op = "concat"
    /\ run' = [run EXCEPT !.states = lifted(run.states, run.i), !.i = @ + 1]
    /\ Pass

\* case 'start_lift'
StartLift ==
    /\ InPass
    /\ State.op = "start_lift"
    /\ run' = [run EXCEPT !.num_lifts = @ + 1, !.out_states = Append(@, State), !.i = @ + 1]
    /\ Pass

\* case 'end_lift'
EndLift ==
    /\ InPass
    /\ State.op = "end_lift"
    /\ run' = [run EXCEPT !.num_lifts = @ - 1, !.out_states = Append(@, State), !.i = @ + 1]
    /\ Pass

\* default
Other ==
    /\ InPass
    /\ State.op \notin CreditOps \cup {"end", "concat", "start_lift", "end_lift"}
    /\ run' = [run EXCEPT !.out_states = Append(@, State), !.i = @ + 1]
    /\ Pass

\* the loop has run over every operation: {valid, credit, states} is returned
Finalised ==
    /\ run.pc = "loop"
    /\ run.i > Len(run.states)
    /\ run' = [run EXCEPT !.pc = "done"]
    /\ Pass

(***************************************************************************)
(* Specification SpecFinalise: finalise_state on the states of up to       *)
(* MaxOps operations.  The messages of a concat are up to MaxParts parts,  *)
(* each an operation or a block that an earlier finalise_state lifted.     *)
(***************************************************************************)
MaxOps == 2

MaxParts == 2

Flat(parts) == IF Len(parts) = 0 THEN <<>> ELSE IF Len(parts) = 1 THEN parts[1]
               ELSE parts[1] \o parts[2]

Parts ==
    { <<add_credit(1)>>, <<end>>, <<endInvalid>>, <<feedback>>,
      <<concat(<<end>>)>>, <<concat(<<add_credit(1)>>)>>,
      <<start_lift(1), end_lift>>,
      <<start_lift(1), add_credit(1), end_lift>>,
      <<start_lift(1), end, end_lift>> }

Messages == { Flat(parts) : parts \in UNION { [1..n -> Parts] : n \in 0..MaxParts } }

Ops ==
    { set_credit(1), multiply_credit(2), add_credit(1), sub_credit(1), end, endInvalid,
      feedback } \cup { concat(messages) : messages \in Messages }

InitFinalise ==
    /\ scopes = <<>>
    /\ last = NoCall
    /\ funcObjAcc = 0
    /\ pool = {}
    /\ evaluations = 0
    /\ \E states \in UNION { [1..n -> Ops] : n \in 1..MaxOps } : run = Finalising(states)

NextFinalise ==
    \/ Credit
    \/ End
    \/ Concat
    \/ StartLift
    \/ EndLift
    \/ Other
    \/ Finalised

SpecFinalise == InitFinalise /\ [][NextFinalise]_vars

\* how many blocks are open at position i of the operations: the start_lift
\* before it less the end_lift before it
Opened(states, i) ==
    Cardinality({k \in 1..(i - 1) : states[k].op = "start_lift"})
        - Cardinality({k \in 1..(i - 1) : states[k].op = "end_lift"})

OutsideEnd(states, k) == states[k].op = "end" /\ Opened(states, k) = 0

\* the first 'end' outside every block, 0 when there is none
FirstOutsideEnd(states) ==
    IF \E k \in 1..Len(states) : OutsideEnd(states, k)
    THEN CHOOSE k \in 1..Len(states) :
            OutsideEnd(states, k) /\ \A j \in 1..(k - 1) : ~OutsideEnd(states, j)
    ELSE 0

\* C27: when the operations hold an 'end' outside every lifted block, the
\* loop stops at the first such one, and the result is invalid exactly when
\* that 'end' carries the invalid flag.
C27_FirstEndStops ==
    (run.pc = "done" /\ FirstOutsideEnd(run.states) # 0)
        => /\ run.end
           /\ run.i = FirstOutsideEnd(run.states)
           /\ run.valid = ~("invalid" \in DOMAIN run.states[run.i])

\* C28: the count of open blocks that finalise_state keeps is never negative,
\* and at every pass it is the number of blocks open at the operation the
\* loop has come to: an 'end' inside a block resumes at that block's own
\* end_lift, and the count is 0 outside all blocks.
C28_LiftDepth ==
    run.pc \in {"loop", "done"} =>
        /\ run.num_lifts >= 0
        /\ run.num_lifts = Opened(run.states, run.i)

(***************************************************************************)
(* Specification SpecSimplifyScope: simplifyTree with one rule, called on  *)
(* the last scope of a chain built-in -> outer -> inner in which the outer *)
(* or the inner scope may bind a variable.                                 *)
(***************************************************************************)
Chain3 == Append(Append(BuiltinHeap, NewScope(1)), NewScope(2))

ScopeBindings ==
    { Chain3,
      setVariable(Chain3, 3, "x", TNum(1)),
      setVariable(Chain3, 2, "x", TNum(1)),
      setVariable(Chain3, 3, "w", TBool(FALSE)),
      setVariable(Chain3, 2, "w", TBool(FALSE)) }

ScopeTrees ==
    { NameT("x"), NumT(1),
      FnT("eval", <<NameT("x")>>),
      FnT("eval", <<OpT("+", <<NameT("x"), NumT(1)>>)>>),
      OpT("+", <<FnT("eval", <<NameT("x")>>), NumT(0)>>) }

\* the last rule has a condition on what it captured, which may be a name
ScopeRules ==
    SimplifyRules \cup {Rule(Capture(NameT("x"), "v"), <<Below2("v")>>, NumT(1))}

InitSimplifyScope ==
    /\ \E h \in ScopeBindings, r \in ScopeRules, tree \in ScopeTrees :
          /\ run = Simplify(<<r>>, tree, h, 3)
          /\ scopes = ownScope(h, 3).h
    /\ last = NoCall
    /\ funcObjAcc = LoadedFuncObjs
    /\ pool = {}
    /\ evaluations = 0

SpecSimplifyScope == InitSimplifyScope /\ [][NextSimplify]_vars

\* the heap with every variable of every scope taken away
Cleared(h) == [k \in 1..Len(h) |-> [h[k] EXCEPT !.variables = EmptyDict]]

\* what a scope holds, its cache of resolved functions aside
Content(scope) ==
    [variables |-> scope.variables, functions |-> scope.functions,
     rulesets |-> scope.rulesets, deleted |-> scope.deleted, parent |-> scope.parent]

\* the eval(...) escape that was just evaluated gave what it gives when no
\* scope binds a variable
EvalSeesNoVariable ==
    last.op = "eval" =>
        LET with == evaluate(last.tree, run.scope, NewEvaluation(last.pre))
            without == evaluate(last.tree, run.scope, NewEvaluation(Cleared(last.pre)))
        IN with.tok = without.tok

\* the rules about to be tried on the current tree match as they do when no
\* scope binds a variable
ScanSeesNoVariable ==
    (Simplifying /\ ~isEval(exprTree) /\ ArgsDone) =>
        LET with == firstMatch(run.rules, 1, exprTree, run.scope, NewEvaluation(scopes))
            without == firstMatch(run.rules, 1, exprTree, run.scope,
                                  NewEvaluation(Cleared(scopes)))
        IN with.outcome = without.outcome /\ with.i = without.i /\ with.d = without.d

\* C30: during simplifyTree no variable of the scope chain is substituted
\* into an eval(...) escape or into the conditions of a rule, and the scope
\* the caller gave holds what it held at the call.
C30_NoVariableVisible ==
    /\ EvalSeesNoVariable
    /\ ScanSeesNoVariable
    /\ Content(scopes[run.caller]) = Content(run.given[run.caller])

====
